---------------------------- MODULE Spec2Model ----------------------------
(***************************************************************************)
(* Model of the suspicion scorer of gitCommitsDuringLesson:                *)
(* SuspiciousActivityDetector (backend/services/suspiciousActivityDetector *)
(* .js, the class at lines 219-469), and of its time-window resolver:      *)
(* CommitAnalyzer.getLastTimeWindow (backend/services/analyzer.js, the     *)
(* class at lines 1-138).                                                  *)
(*                                                                         *)
(* A commit is a record with the fields the scorer reads:                  *)
(*   date     commit.author.date, as whole seconds since the epoch (the    *)
(*            GitHub API delivers author dates with second resolution);    *)
(*   message  commit.message as a sequence of one-character strings; the   *)
(*            field is missing when the commit has no message;             *)
(*   stats    a record with additions and/or deletions; the field is       *)
(*            missing when the commit carries no stats.                    *)
(* A report is the object analyze returns; a field the code does not set   *)
(* is missing from the record (DOMAIN tells).                              *)
(***************************************************************************)
EXTENDS Integers, Sequences, FiniteSets, TLC

VARIABLES
    thresholds,   \* this.thresholds of the detector
    commits,      \* the commit list handed to analyze
    repoName,     \* the repository label handed to analyze
    report,       \* what analyze returned (NoReport before the call returns)
    stats,        \* what analyzeCommits returned (NoStats before the call)
    args,         \* the four arguments handed to getLastTimeWindow
    now,          \* the Date that new Date() gives during the call
    tzOffset,     \* the host's local time minus UTC, in minutes
    window,       \* what getLastTimeWindow returned or threw (NoWindow before)
    calls,        \* history: the calls the detector or the analyzer has served
    reports,      \* the list of reports handed to printReport
    printed,      \* the lines written with console.log, in order
    currentStats, \* the module-level currentStats of the server
    runs,         \* the invocations of analyzeOrganization and their locals
    response,     \* the body of the last answer to GET /api/stats
    pc            \* "ready": not yet called, "done": the call has returned

scorerVars == <<thresholds, commits, repoName, report, stats>>

resolverVars == <<args, now, tzOffset, window>>

printVars == <<reports, printed>>

serverVars == <<currentStats, runs, response>>

vars == <<scorerVars, resolverVars, printVars, serverVars, calls, pc>>

---------------------------------------------------------------------------
(* Bounds of the model *)

\* longest commit list in Spec, SpecTime and SpecLines
MaxCommits == 3
\* longest commit list over the full message alphabet in SpecMsg
MaxMsgCommits == 4
\* longest commit list over the two-message alphabet in SpecMsg
MaxLongCommits == 10

\* the current time ranges over the days 0..MaxNowDay after FirstDay
MaxNowDay == 6

\* calls made one after the other on one detector or one analyzer
MaxCalls == 3

\* longest list of reports handed to printReport
MaxReports == 3

\* invocations of analyzeOrganization: the initial run and the cron ticks
MaxRuns == 2

---------------------------------------------------------------------------
(* Helpers *)

Min(a, b) == IF a <= b THEN a ELSE b

HasField(r, f) == f \in DOMAIN r

\* the sequences over S of length 0..n
SeqsUpTo(n, S) == UNION {[1..k -> S] : k \in 0..n}

---------------------------------------------------------------------------
(* constructor *)

Str_update == <<"u", "p", "d", "a", "t", "e">>
Str_fix == <<"f", "i", "x">>
Str_done == <<"d", "o", "n", "e">>
Str_asdf == <<"a", "s", "d", "f">>
Str_test == <<"t", "e", "s", "t">>
Str_commit == <<"c", "o", "m", "m", "i", "t">>

Thresholds ==
    [ massActivityMinCommits |-> 3,
      massActivityMinLines   |-> 200,
      massActivityMaxMinutes |-> 10,
      massCommitLines        |-> 300,
      unrealisticSpeed       |-> 100,
      rapidFireInterval      |-> 120,
      noCorrectionsRatio     |-> 20,
      genericMessages        |-> << Str_update, Str_fix, Str_done, Str_asdf,
                                    Str_test, Str_commit,
                                    <<".">>, <<".", ".">>, <<".", ".", ".">> >> ]

---------------------------------------------------------------------------
(* Reading a commit *)

\* c.stats?.additions || 0
Additions(c) ==
    IF HasField(c, "stats") /\ HasField(c.stats, "additions")
    THEN c.stats.additions ELSE 0

\* c.stats?.deletions || 0
Deletions(c) ==
    IF HasField(c, "stats") /\ HasField(c.stats, "deletions")
    THEN c.stats.deletions ELSE 0

\* (commit.stats?.additions || 0) + (commit.stats?.deletions || 0)
CommitLines(c) == Additions(c) + Deletions(c)

\* commit.commit.message || ''
MessageOf(c) == IF HasField(c, "message") THEN c.message ELSE <<>>

\* the characters String.prototype.trim removes (those the model's messages use)
WhiteSpace == {" ", "\t", "\n"}

RECURSIVE TrimStart(_)
TrimStart(s) ==
    IF s # <<>> /\ Head(s) \in WhiteSpace THEN TrimStart(Tail(s)) ELSE s

RECURSIVE TrimEnd(_)
TrimEnd(s) ==
    IF s # <<>> /\ s[Len(s)] \in WhiteSpace
    THEN TrimEnd(SubSeq(s, 1, Len(s) - 1)) ELSE s

\* String.prototype.trim
Trim(s) == TrimEnd(TrimStart(s))

LowerChar(ch) ==
    CASE ch = "A" -> "a" [] ch = "B" -> "b" [] ch = "C" -> "c" [] ch = "D" -> "d"
      [] ch = "E" -> "e" [] ch = "F" -> "f" [] ch = "G" -> "g" [] ch = "H" -> "h"
      [] ch = "I" -> "i" [] ch = "J" -> "j" [] ch = "K" -> "k" [] ch = "L" -> "l"
      [] ch = "M" -> "m" [] ch = "N" -> "n" [] ch = "O" -> "o" [] ch = "P" -> "p"
      [] ch = "Q" -> "q" [] ch = "R" -> "r" [] ch = "S" -> "s" [] ch = "T" -> "t"
      [] ch = "U" -> "u" [] ch = "V" -> "v" [] ch = "W" -> "w" [] ch = "X" -> "x"
      [] ch = "Y" -> "y" [] ch = "Z" -> "z" [] OTHER -> ch

ToLowerCase_Identity(s) == s

\* String.prototype.toLowerCase
ToLowerCase(s) == [i \in 1..Len(s) |-> LowerChar(s[i])]

\* Array.prototype.includes
Includes(list, x) == \E i \in 1..Len(list) : list[i] = x

IsGenericMessage_NonEmptyOnly(c) ==
    LET msg == ToLowerCase(Trim(MessageOf(c)))
    IN  msg # <<>> /\ Includes(thresholds.genericMessages, msg)

\* the test of the generic-message loop:
\*   msg = (commit.commit.message || '').trim().toLowerCase();
\*   !msg || this.thresholds.genericMessages.includes(msg)
IsGenericMessage(c) ==
    LET msg == ToLowerCase(Trim(MessageOf(c)))
    IN  msg = <<>> \/ Includes(thresholds.genericMessages, msg)

---------------------------------------------------------------------------
(* [...commits].sort((a, b) => new Date(a...date) - new Date(b...date)):    *)
(* Array.prototype.sort is stable, so commits of equal date keep their     *)
(* input order.                                                            *)

\* mutant of DateOrderKept: commits of equal date change places
DateOrderKept_TiesSwapped(a, b) == a.date - b.date < 0

\* (a, b) => new Date(a...date) - new Date(b...date) is not positive: sort
\* leaves a before b
DateOrderKept(a, b) == a.date - b.date <= 0

RECURSIVE InsertByDate(_, _)
InsertByDate(sorted, c) ==
    IF sorted = <<>> THEN <<c>>
    ELSE IF DateOrderKept(sorted[Len(sorted)], c) THEN Append(sorted, c)
    ELSE Append(InsertByDate(SubSeq(sorted, 1, Len(sorted) - 1), c),
                sorted[Len(sorted)])

RECURSIVE SortByDate(_)
SortByDate(s) ==
    IF s = <<>> THEN <<>>
    ELSE InsertByDate(SortByDate(SubSeq(s, 1, Len(s) - 1)), s[Len(s)])

\* sortedCommits.reduce((sum, c) => sum + (c.stats?.additions || 0), 0)
RECURSIVE TotalAdditions(_)
TotalAdditions(s) ==
    IF s = <<>> THEN 0 ELSE Additions(Head(s)) + TotalAdditions(Tail(s))

\* sortedCommits.reduce((sum, c) => sum + (c.stats?.deletions || 0), 0)
TotalDeletions_Dropped(s) == 0

RECURSIVE TotalDeletions(_)
TotalDeletions(s) ==
    IF s = <<>> THEN 0 ELSE Deletions(Head(s)) + TotalDeletions(Tail(s))

---------------------------------------------------------------------------
(* The accumulator of analyze: the local flags array and the local score.  *)

\* flags.push(flag); score += points;
Push(acc, flag, points) ==
    [flags |-> Append(acc.flags, flag), score |-> acc.score + points]

\* Math.round(num / den) for num >= 0, den > 0 (halves round up)
RoundDiv(num, den) == (2 * num + den) \div (2 * den)

---------------------------------------------------------------------------
(* Check 0: MASS_ACTIVITY *)

\* The code computes Math.round(50 * Math.min(2, totalLines / 300)) in
\* binary64.  The exact value is totalLines / 6 below the cap; it is a
\* half-integer when totalLines mod 6 = 3, and for the totals listed here the
\* binary64 product falls just below that half (339 / 300 evaluates to
\* 1.1299999999999998934..., times 50 to 56.499999999999992894...), so that
\* Math.round rounds down.  For every other total below 600 the binary64 and
\* the exact rounding agree.
Binary64JustBelowHalf == {87, 171, 339, 345}

\* basePoints = 50; intensityMultiplier = Math.min(2, totalLines / 300);
\* points = Math.round(basePoints * intensityMultiplier)
MassActivityPoints(totalLines) ==
    IF totalLines >= 2 * 300 THEN 50 * 2
    ELSE IF totalLines \in Binary64JustBelowHalf THEN (50 * totalLines) \div 300
    ELSE RoundDiv(50 * totalLines, 300)

\* totalLines >= 500 ? 'high' : totalLines >= 300 ? 'medium' : 'medium'
MassActivitySeverity(totalLines) ==
    IF totalLines >= 500 THEN "high"
    ELSE IF totalLines >= 300 THEN "medium" ELSE "medium"

\* sortedCommits.length >= massActivityMinCommits, totalLines >= massActivityMinLines
\* and durationMinutes <= massActivityMaxMinutes, with
\* durationMinutes = (lastTime - firstTime) / 1000 / 60
MassActivityApplies(sortedCommits, totalLines) ==
    /\ Len(sortedCommits) >= thresholds.massActivityMinCommits
    /\ totalLines >= thresholds.massActivityMinLines
    /\ sortedCommits[Len(sortedCommits)].date - sortedCommits[1].date
          <= 60 * thresholds.massActivityMaxMinutes

CheckMassActivity(acc, sortedCommits, totalLines) ==
    IF MassActivityApplies(sortedCommits, totalLines)
    THEN LET durationSeconds ==
                 sortedCommits[Len(sortedCommits)].date - sortedCommits[1].date
             points == MassActivityPoints(totalLines)
         IN  Push(acc,
                  [ type     |-> "MASS_ACTIVITY",
                    severity |-> MassActivitySeverity(totalLines),
                    message  |-> ToString(Len(sortedCommits)) \o " commits, "
                                 \o ToString(totalLines) \o " lines in "
                                 \o ToString(RoundDiv(durationSeconds, 60))
                                 \o " minutes",
                    points   |-> points ],
                  points)
    ELSE acc

---------------------------------------------------------------------------
(* Check 1: MASS_COMMIT, the forEach over sortedCommits (idx is 1-based   *)
(* here, so the message's idx + 1 is idx)                                 *)

\* mutant of IsMassCommit: a commit of exactly massCommitLines lines counts
IsMassCommit_AtLeast(c) == CommitLines(c) >= thresholds.massCommitLines

\* commitLines > this.thresholds.massCommitLines
IsMassCommit(c) == CommitLines(c) > thresholds.massCommitLines

\* mutant of MassCommitStep: the score grows by 30 for a flag of 20 points
MassCommitStep_Adds30(acc, c, idx) ==
    IF IsMassCommit(c)
    THEN Push(acc,
              [ type     |-> "MASS_COMMIT",
                severity |-> "high",
                message  |-> "Commit " \o ToString(idx) \o ": "
                             \o ToString(CommitLines(c))
                             \o " lines in single commit",
                points   |-> 20 ],
              30)
    ELSE acc

MassCommitStep(acc, c, idx) ==
    IF IsMassCommit(c)
    THEN Push(acc,
              [ type     |-> "MASS_COMMIT",
                severity |-> "high",
                message  |-> "Commit " \o ToString(idx) \o ": "
                             \o ToString(CommitLines(c))
                             \o " lines in single commit",
                points   |-> 20 ],
              20)
    ELSE acc

RECURSIVE MassCommitLoop(_, _, _)
MassCommitLoop(acc, sortedCommits, idx) ==
    IF idx > Len(sortedCommits) THEN acc
    ELSE MassCommitLoop(MassCommitStep(acc, sortedCommits[idx], idx),
                        sortedCommits, idx + 1)

CheckMassCommit(acc, sortedCommits) == MassCommitLoop(acc, sortedCommits, 1)

---------------------------------------------------------------------------
(* Check 2: SINGLE_COMMIT *)

\* mutant of SingleCommitApplies: 50 additions are enough
SingleCommitApplies_AtLeast(sortedCommits) ==
    /\ Len(sortedCommits) = 1
    /\ HasField(sortedCommits[1], "stats")
    /\ Additions(sortedCommits[1]) >= 50

\* sortedCommits.length === 1 && sortedCommits[0].stats, then
\* lines = sortedCommits[0].stats.additions || 0; lines > 50
SingleCommitApplies(sortedCommits) ==
    /\ Len(sortedCommits) = 1
    /\ HasField(sortedCommits[1], "stats")
    /\ Additions(sortedCommits[1]) > 50

CheckSingleCommit(acc, sortedCommits) ==
    IF SingleCommitApplies(sortedCommits)
    THEN Push(acc,
              [ type     |-> "SINGLE_COMMIT",
                severity |-> "high",
                message  |-> "Entire exercise ("
                             \o ToString(Additions(sortedCommits[1]))
                             \o " lines) in single commit",
                points   |-> 20 ],
              20)
    ELSE acc

---------------------------------------------------------------------------
(* Check 3: NO_CORRECTIONS / ONLY_ADDITIONS *)

\* mutant of NoCorrectionsApplies: a ratio of exactly 20 counts
NoCorrectionsApplies_AtLeast(totalAdditions, totalDeletions) ==
    /\ totalDeletions > 0
    /\ totalAdditions >= thresholds.noCorrectionsRatio * totalDeletions

\* ratio = totalAdditions / totalDeletions; ratio > noCorrectionsRatio
\* (for integer totals the binary64 quotient exceeds 20 exactly when
\* totalAdditions > 20 * totalDeletions)
NoCorrectionsApplies(totalAdditions, totalDeletions) ==
    /\ totalDeletions > 0
    /\ totalAdditions > thresholds.noCorrectionsRatio * totalDeletions

\* the else branch: totalAdditions > 100
OnlyAdditionsApplies(totalAdditions, totalDeletions) ==
    /\ ~(totalDeletions > 0)
    /\ totalAdditions > 100

\* ratio.toFixed(1), with the quotient rounded to tenths
RatioToFixed1(totalAdditions, totalDeletions) ==
    LET tenths == RoundDiv(10 * totalAdditions, totalDeletions)
    IN  ToString(tenths \div 10) \o "." \o ToString(tenths % 10)

CheckCorrections(acc, totalAdditions, totalDeletions) ==
    IF NoCorrectionsApplies(totalAdditions, totalDeletions)
    THEN Push(acc,
              [ type     |-> "NO_CORRECTIONS",
                severity |-> "low",
                message  |-> "Ratio "
                             \o RatioToFixed1(totalAdditions, totalDeletions)
                             \o ":1 additions/deletions (no mistakes/refactoring)",
                points   |-> 10 ],
              10)
    ELSE IF OnlyAdditionsApplies(totalAdditions, totalDeletions)
    THEN Push(acc,
              [ type     |-> "ONLY_ADDITIONS",
                severity |-> "low",
                message  |-> ToString(totalAdditions)
                             \o " additions, 0 deletions (no corrections)",
                points   |-> 12 ],
              12)
    ELSE acc

---------------------------------------------------------------------------
(* Check 4: RAPID_FIRE and the unrealistic-speed loop, both inside         *)
(* if (sortedCommits.length >= 2)                                          *)

\* flags.some(f => f.type === 'MASS_ACTIVITY')
AlreadyFlaggedMassActivity(flags) ==
    \E k \in 1..Len(flags) : flags[k].type = "MASS_ACTIVITY"

\* mutant of RapidFireApplies: a span of exactly rapidFireInterval counts
RapidFireApplies_Inclusive(flags, sortedCommits) ==
    /\ sortedCommits[Len(sortedCommits)].date - sortedCommits[1].date
          <= thresholds.rapidFireInterval
    /\ Len(sortedCommits) >= 3
    /\ ~AlreadyFlaggedMassActivity(flags)

\* durationSeconds < rapidFireInterval && sortedCommits.length >= 3 &&
\* !alreadyFlaggedMassActivity, with durationSeconds = (lastTime - firstTime) / 1000
RapidFireApplies(flags, sortedCommits) ==
    /\ sortedCommits[Len(sortedCommits)].date - sortedCommits[1].date
          < thresholds.rapidFireInterval
    /\ Len(sortedCommits) >= 3
    /\ ~AlreadyFlaggedMassActivity(flags)

CheckRapidFire(acc, sortedCommits) ==
    IF RapidFireApplies(acc.flags, sortedCommits)
    THEN Push(acc,
              [ type     |-> "RAPID_FIRE",
                severity |-> "medium",
                message  |-> ToString(Len(sortedCommits)) \o " commits in "
                             \o ToString(sortedCommits[Len(sortedCommits)].date
                                         - sortedCommits[1].date)
                             \o "s",
                points   |-> 15 ],
              15)
    ELSE acc

\* linesPerMinute = linesDiff / timeDiff with timeDiff = seconds / 60, both
\* divisions in binary64.  When the exact quotient is exactly 100 (3 * linesDiff
\* = 5 * seconds) the binary64 quotient can come out as 100.00000000000001:
\* 69 / 60 evaluates to 1.1499999999999999111..., and 115 divided by it to
\* 100.00000000000001421....  These are the line counts up to 1000 (intervals up
\* to 10 minutes) for which that happens; otherwise the binary64 quotient
\* compares with 100 as the exact one does.
Binary64JustAbove100 ==
    {115, 205, 230, 410, 435, 460, 485, 820, 845, 870, 895, 920, 945, 970, 995}

\* `${Math.round(linesPerMinute)}` with linesPerMinute = linesDiff / timeDiff:
\* a division by 0 gives Infinity, or NaN when linesDiff is 0 too
RoundedRate(linesDiff, seconds) ==
    IF seconds = 0 THEN (IF linesDiff = 0 THEN "NaN" ELSE "Infinity")
    ELSE ToString(RoundDiv(60 * linesDiff, seconds))

\* mutant of SpeedExceeds: the test timeDiff > 0 is missing
SpeedExceeds_AnyInterval(linesDiff, seconds) ==
    \/ 60 * linesDiff > thresholds.unrealisticSpeed * seconds
    \/ /\ 60 * linesDiff = thresholds.unrealisticSpeed * seconds
       /\ thresholds.unrealisticSpeed = 100
       /\ linesDiff \in Binary64JustAbove100

\* timeDiff > 0 and linesPerMinute > this.thresholds.unrealisticSpeed
SpeedExceeds_AtLeast(linesDiff, seconds) ==
    /\ seconds > 0
    /\ 60 * linesDiff >= thresholds.unrealisticSpeed * seconds

SpeedExceeds(linesDiff, seconds) ==
    /\ seconds > 0
    /\ \/ 60 * linesDiff > thresholds.unrealisticSpeed * seconds
       \/ /\ 60 * linesDiff = thresholds.unrealisticSpeed * seconds
          /\ thresholds.unrealisticSpeed = 100
          /\ linesDiff \in Binary64JustAbove100

\* the for loop from i (prev = sortedCommits[i - 1], curr = sortedCommits[i] in
\* the code's 0-based indices: here prev = sortedCommits[i], curr =
\* sortedCommits[i + 1]); it pushes one flag at the first match and breaks
RECURSIVE SpeedLoop(_, _, _)
SpeedLoop(acc, sortedCommits, i) ==
    IF i >= Len(sortedCommits) THEN acc
    ELSE LET prev == sortedCommits[i]
             curr == sortedCommits[i + 1]
             seconds == curr.date - prev.date
             linesDiff == CommitLines(curr)
         IN  IF SpeedExceeds(linesDiff, seconds)
             THEN Push(acc,
                       [ type     |-> "UNREALISTIC_SPEED",
                         severity |-> "high",
                         message  |-> RoundedRate(linesDiff, seconds)
                                      \o " lines/min between commits "
                                      \o ToString(i) \o " and " \o ToString(i + 1),
                         points   |-> 25 ],
                       25)
             ELSE SpeedLoop(acc, sortedCommits, i + 1)

CheckTiming_SpeedFirst(acc, sortedCommits) ==
    IF Len(sortedCommits) >= 2
    THEN CheckRapidFire(SpeedLoop(acc, sortedCommits, 1), sortedCommits)
    ELSE acc

CheckTiming(acc, sortedCommits) ==
    IF Len(sortedCommits) >= 2
    THEN SpeedLoop(CheckRapidFire(acc, sortedCommits), sortedCommits, 1)
    ELSE acc

---------------------------------------------------------------------------
(* Check 5: GENERIC_MESSAGES / MOSTLY_GENERIC *)

\* genericCount after the forEach
RECURSIVE GenericCount(_)
GenericCount(s) ==
    IF s = <<>> THEN 0
    ELSE (IF IsGenericMessage(Head(s)) THEN 1 ELSE 0) + GenericCount(Tail(s))

\* genericCount > 0 && genericCount === sortedCommits.length
AllGeneric(genericCount, length) == genericCount > 0 /\ genericCount = length

\* mutant of MostlyGeneric: exactly 70% is not enough
MostlyGeneric_Strict(genericCount, length) == 10 * genericCount > 7 * length

\* genericCount >= sortedCommits.length * 0.7 (for integers the binary64
\* comparison is 10 * genericCount >= 7 * length)
MostlyGeneric(genericCount, length) == 10 * genericCount >= 7 * length

CheckMessages(acc, sortedCommits) ==
    LET genericCount == GenericCount(sortedCommits)
        length == Len(sortedCommits)
    IN  IF AllGeneric(genericCount, length)
        THEN Push(acc,
                  [ type     |-> "GENERIC_MESSAGES",
                    severity |-> "low",
                    message  |-> "All " \o ToString(genericCount)
                                 \o " commit messages are generic/empty",
                    points   |-> 8 ],
                  8)
        ELSE IF MostlyGeneric(genericCount, length)
        THEN Push(acc,
                  [ type     |-> "MOSTLY_GENERIC",
                    severity |-> "low",
                    message  |-> ToString(genericCount) \o "/" \o ToString(length)
                                 \o " commit messages are generic",
                    points   |-> 5 ],
                  5)
        ELSE acc

---------------------------------------------------------------------------
(* analyze(commits, repoName) *)

\* return { score: 0, flags: [], repoName }
EmptyReport(name) == [score |-> 0, flags |-> <<>>, repoName |-> name]

\* mutant of CapScore: the cap is missing
CapScore_NoCap(score) == score

\* Math.min(score, 100)
CapScore(score) == Min(score, 100)

\* a null commits argument: not a list, distinguished by its domain
Null == [i \in {0} |-> 0]

\* !commits
IsNull(cs) == 0 \in DOMAIN cs

\* The sort comparator reads a.commit.author.date and b.commit.author.date.
\* A commit without commit.author is a record without the field date; reading
\* .date of undefined throws a TypeError.  The comparator runs on every element
\* of a list of two or more and not at all on a list of one, and no later
\* check of a one-commit list reads the date.
SortThrows(cs) == Len(cs) >= 2 /\ \E i \in 1..Len(cs) : ~HasField(cs[i], "date")

\* the outcome of a call that ends in an uncaught TypeError
TypeError == [error |-> "TypeError"]

analyze(cs, name) ==
    IF IsNull(cs) \/ Len(cs) = 0 THEN EmptyReport(name)
    ELSE IF SortThrows(cs) THEN TypeError
    ELSE LET sortedCommits  == SortByDate(cs)
             totalAdditions == TotalAdditions(sortedCommits)
             totalDeletions == TotalDeletions(sortedCommits)
             totalLines     == totalAdditions + totalDeletions
             acc0 == [flags |-> <<>>, score |-> 0]
             acc1 == CheckMassActivity(acc0, sortedCommits, totalLines)
             acc2 == CheckMassCommit(acc1, sortedCommits)
             acc3 == CheckSingleCommit(acc2, sortedCommits)
             acc4 == CheckCorrections(acc3, totalAdditions, totalDeletions)
             acc5 == CheckTiming(acc4, sortedCommits)
             acc6 == CheckMessages(acc5, sortedCommits)
         IN  [ repoName    |-> name,
               score       |-> CapScore(acc6.score),
               flags       |-> acc6.flags,
               commitCount |-> Len(sortedCommits),
               totalLines  |-> totalAdditions + totalDeletions ]

---------------------------------------------------------------------------
(* CommitAnalyzer.getLastTimeWindow (analyzer.js, the first copy of the    *)
(* class, with four parameters).                                           *)
(*                                                                         *)
(* A Date is a record [t |-> whole minutes since 1970-01-01T00:00Z], or    *)
(* InvalidDate for a Date whose time value is NaN.  Minutes suffice: every *)
(* Date the resolver returns has had setHours(h, m, 0, 0) applied, and     *)
(* comparing such a Date with now gives what comparing it with now cut to  *)
(* the minute gives.  The host time zone is a fixed offset tzOffset (local *)
(* time minus UTC, in minutes); what the resolver does across a change of  *)
(* the offset (daylight saving) is left open by spec.md and is outside     *)
(* this model.  Strings are sequences of 1-character strings.              *)

DateAt(t) == [t |-> t]

InvalidDate == [invalid |-> TRUE]

IsValidDate(d) == HasField(d, "t")

IsDigit(ch) == ch \in {"0", "1", "2", "3", "4", "5", "6", "7", "8", "9"}

DigitValue(ch) ==
    CASE ch = "0" -> 0 [] ch = "1" -> 1 [] ch = "2" -> 2 [] ch = "3" -> 3
      [] ch = "4" -> 4 [] ch = "5" -> 5 [] ch = "6" -> 6 [] ch = "7" -> 7
      [] ch = "8" -> 8 [] ch = "9" -> 9

AllDigits(s) == \A i \in 1..Len(s) : IsDigit(s[i])

\* Number(s) for a string of decimal digits; Number('') is 0
RECURSIVE DecimalValue(_)
DecimalValue(s) ==
    IF s = <<>> THEN 0
    ELSE 10 * DecimalValue(SubSeq(s, 1, Len(s) - 1)) + DigitValue(s[Len(s)])

\* /^\d{4}-\d{2}-\d{2}$/.test(s)
IsDateString(s) ==
    /\ Len(s) = 10
    /\ \A i \in {1, 2, 3, 4, 6, 7, 9, 10} : IsDigit(s[i])
    /\ s[5] = "-"
    /\ s[8] = "-"

\* s.split(':')
RECURSIVE SplitColon(_)
SplitColon(s) ==
    IF \A i \in 1..Len(s) : s[i] # ":" THEN <<s>>
    ELSE LET k == CHOOSE i \in 1..Len(s) :
                      s[i] = ":" /\ \A j \in 1..(i - 1) : s[j] # ":"
         IN  <<SubSeq(s, 1, k - 1)>> \o SplitColon(SubSeq(s, k + 1, Len(s)))

\* a time of day one of whose parts is NaN or undefined
NaNTime == [nan |-> TRUE]

IsNaNTime(time) == HasField(time, "nan")

\* const [hour, min] = time.split(':').map(Number).  A part that is not a string
\* of digits gives NaN, a missing second part undefined; either makes the
\* setHours call that uses the pair produce an invalid Date.
ParseTime(s) ==
    LET parts == SplitColon(s)
    IN  IF Len(parts) >= 2 /\ AllDigits(parts[1]) /\ AllDigits(parts[2])
        THEN [hour |-> DecimalValue(parts[1]), min |-> DecimalValue(parts[2])]
        ELSE NaNTime

\* Day number (days since 1970-01-01) of a date of the proleptic Gregorian
\* calendar, as MakeDay of ECMAScript computes it; month is 1..12.
DaysFromCivil(year, month, day) ==
    LET y   == IF month <= 2 THEN year - 1 ELSE year
        era == y \div 400
        yoe == y - era * 400
        mp  == IF month > 2 THEN month - 3 ELSE month + 9
        doy == (153 * mp + 2) \div 5 + day - 1
        doe == yoe * 365 + yoe \div 4 - yoe \div 100 + doy
    IN  era * 146097 + doe - 719468

\* Year, month (1..12) and day of the month of a day number, as YearFromTime,
\* MonthFromTime and DateFromTime of ECMAScript compute them.
CivilFromDays(days) ==
    LET z   == days + 719468
        era == z \div 146097
        doe == z - era * 146097
        yoe == (doe - doe \div 1460 + doe \div 36524 - doe \div 146096) \div 365
        doy == doe - (365 * yoe + yoe \div 4 - yoe \div 100)
        mp  == (5 * doy + 2) \div 153
        d   == doy - (153 * mp + 2) \div 5 + 1
        m   == IF mp < 10 THEN mp + 3 ELSE mp - 9
    IN  [year |-> IF m <= 2 THEN yoe + era * 400 + 1 ELSE yoe + era * 400,
         month |-> m, day |-> d]

\* new Date('YYYY-MM-DD') for a string that names a day of the calendar: a
\* date-only ISO string is read as midnight UTC of that day
DateFromISO(s) ==
    DateAt(1440 * DaysFromCivil(DecimalValue(SubSeq(s, 1, 4)),
                                DecimalValue(SubSeq(s, 6, 7)),
                                DecimalValue(SubSeq(s, 9, 10))))

\* the day number of the local calendar day that holds the instant
LocalDay(d) == (d.t + tzOffset) \div 1440

\* minutes since local midnight: 60 * getHours() + getMinutes()
LocalMinuteOfDay(d) == (d.t + tzOffset) % 1440

\* Date.prototype.getFullYear, getMonth (0..11), getDate, getHours, getMinutes
GetFullYear(d) == CivilFromDays(LocalDay(d)).year
GetMonth(d) == CivilFromDays(LocalDay(d)).month - 1
GetDate(d) == CivilFromDays(LocalDay(d)).day
GetHours(d) == LocalMinuteOfDay(d) \div 60
GetMinutes(d) == LocalMinuteOfDay(d) % 60

\* Date.prototype.getDay: 0 is Sunday; 1970-01-01 was a Thursday
GetDay(d) == (LocalDay(d) + 4) % 7

\* d.setHours(time.hour, time.min, 0, 0): the local calendar day of d at the
\* given local time
SetHours(d, time) ==
    IF ~IsValidDate(d) \/ IsNaNTime(time) THEN InvalidDate
    ELSE DateAt(1440 * LocalDay(d) + 60 * time.hour + time.min - tzOffset)

\* d.setDate(d.getDate() - days): the same local time, days calendar days
\* earlier
SetDateBack(d, days) ==
    IF ~IsValidDate(d) THEN InvalidDate
    ELSE DateAt(1440 * (LocalDay(d) - days) + LocalMinuteOfDay(d) - tzOffset)

\* _getTimeWindowFromDates
GetTimeWindowFromDates(startDateStr, startTime, endDateStr, endTime) ==
    [ since |-> SetHours(DateFromISO(startDateStr), ParseTime(startTime)),
      until |-> SetHours(DateFromISO(endDateStr), ParseTime(endTime)) ]

Str_monday == <<"m", "o", "n", "d", "a", "y">>
Str_tuesday == <<"t", "u", "e", "s", "d", "a", "y">>
Str_wednesday == <<"w", "e", "d", "n", "e", "s", "d", "a", "y">>
Str_thursday == <<"t", "h", "u", "r", "s", "d", "a", "y">>
Str_friday == <<"f", "r", "i", "d", "a", "y">>
Str_saturday == <<"s", "a", "t", "u", "r", "d", "a", "y">>
Str_sunday == <<"s", "u", "n", "d", "a", "y">>

\* the keys of dayMap
DayMapKeys ==
    {Str_monday, Str_tuesday, Str_wednesday, Str_thursday, Str_friday,
     Str_saturday, Str_sunday}

\* dayMap[key] for a key of dayMap
DayMap(key) ==
    CASE key = Str_monday -> 1 [] key = Str_tuesday -> 2
      [] key = Str_wednesday -> 3 [] key = Str_thursday -> 4
      [] key = Str_friday -> 5 [] key = Str_saturday -> 6
      [] key = Str_sunday -> 0

\* (currentDayNumber - endDayNumber + 7) % 7
DaysBackToEnd(currentDayNumber, endDayNumber) ==
    (currentDayNumber - endDayNumber + 7) % 7

InFuture_OrNow(endDate) == IsValidDate(endDate) /\ endDate.t >= now.t

\* endDate > now, false for an invalid endDate
InFuture(endDate) == IsValidDate(endDate) /\ endDate.t > now.t

DayDiff_Reversed(endDayNumber, startDayNumber) ==
    (startDayNumber - endDayNumber + 7) % 7

\* (endDayNumber - startDayNumber + 7) % 7
DayDiff(endDayNumber, startDayNumber) ==
    (endDayNumber - startDayNumber + 7) % 7

EndsBeforeStart_HoursOnly(et, st) ==
    ~IsNaNTime(et) /\ ~IsNaNTime(st) /\ et.hour < st.hour

EndsBeforeStart_Never(et, st) == FALSE

\* endHour < startHour || (endHour === startHour && endMin < startMin), false
\* when a part is NaN
EndsBeforeStart(et, st) ==
    /\ ~IsNaNTime(et)
    /\ ~IsNaNTime(st)
    /\ \/ et.hour < st.hour
       \/ et.hour = st.hour /\ et.min < st.min

\* _getTimeWindowFromDayNames.  A day name that is not a key of dayMap gives
\* undefined, the arithmetic on it NaN and the Date set from it an invalid
\* Date; nothing is thrown.
GetTimeWindowFromDayNames(startDay, startTime, endDay, endTime) ==
    LET startKey == ToLowerCase(startDay)
        endKey   == ToLowerCase(endDay)
        st       == ParseTime(startTime)
        et       == ParseTime(endTime)
    IN  IF endKey \notin DayMapKeys
        THEN [since |-> InvalidDate, until |-> InvalidDate]
        ELSE LET endDayNumber  == DayMap(endKey)
                 daysBackToEnd == DaysBackToEnd(GetDay(now), endDayNumber)
                 tentative     == SetHours(SetDateBack(now, daysBackToEnd), et)
                 endDate       == IF InFuture(tentative)
                                  THEN SetDateBack(tentative, 7)
                                  ELSE tentative
             IN  IF startKey \notin DayMapKeys
                 THEN [since |-> InvalidDate, until |-> endDate]
                 ELSE LET dayDiff0 == DayDiff(endDayNumber, DayMap(startKey))
                          dayDiff  == IF dayDiff0 = 0 /\ EndsBeforeStart(et, st)
                                      THEN 7 ELSE dayDiff0
                      IN  [ since |-> SetHours(SetDateBack(endDate, dayDiff), st),
                            until |-> endDate ]

BothDayNames_StartOnly(isStartDate, isEndDate) == ~isStartDate

\* !isStartDate && !isEndDate
BothDayNames(isStartDate, isEndDate) == ~isStartDate /\ ~isEndDate

\* the outcome of a call that throws new Error('Time window config must use
\* either both day names or both specific dates, not mixed')
MixedFormatError ==
    [error |-> "Time window config must use either both day names or both specific dates, not mixed"]

getLastTimeWindow(startDayOrDate, startTime, endDayOrDate, endTime) ==
    LET isStartDate == IsDateString(startDayOrDate)
        isEndDate   == IsDateString(endDayOrDate)
    IN  IF isStartDate /\ isEndDate
        THEN GetTimeWindowFromDates(startDayOrDate, startTime,
                                    endDayOrDate, endTime)
        ELSE IF BothDayNames(isStartDate, isEndDate)
        THEN GetTimeWindowFromDayNames(startDayOrDate, startTime,
                                       endDayOrDate, endTime)
        ELSE MixedFormatError

---------------------------------------------------------------------------
(* CommitAnalyzer.analyzeCommits (analyzer.js, lines 105-137) *)

\* the commits the forEach adds up: if (commit.stats)
WithStats(cs) == SelectSeq(cs, LAMBDA c : HasField(c, "stats"))

\* (commit.stats.additions || 0) + (commit.stats.deletions || 0) for each commit
\* with stats, in list order
LinesPerCommit(cs) ==
    [i \in 1..Len(WithStats(cs)) |-> CommitLines(WithStats(cs)[i])]

CommitsLength_WithStats(cs) == Len(WithStats(cs))

\* commits.length
CommitsLength(cs) == Len(cs)

analyzeCommits(cs) ==
    LET totalAdditions    == TotalAdditions(WithStats(cs))
        totalDeletions    == TotalDeletions(WithStats(cs))
        totalLinesChanged == totalAdditions + totalDeletions
    IN  [ commitCount       |-> CommitsLength(cs),
          totalLinesChanged |-> totalLinesChanged,
          totalAdditions    |-> totalAdditions,
          totalDeletions    |-> totalDeletions,
          avgLinesPerCommit |-> IF CommitsLength(cs) > 0
                                THEN RoundDiv(totalLinesChanged, CommitsLength(cs))
                                ELSE 0,
          linesPerCommit    |-> LinesPerCommit(cs) ]

---------------------------------------------------------------------------
(* SuspiciousActivityDetector.printReport and _formatDateForGit             *)
(* (suspiciousActivityDetector.js, lines 423-468).  console.log appends one  *)
(* line to the output; a line is a record of the parts its template is made  *)
(* of, kind naming the template.                                             *)

\* reports.filter(r => r.score > 0)
IsSuspicious(r) == r.score > 0

\* mutant of KeepsOrder: the comparator is a.score - b.score
KeepsOrder_Ascending(a, b) == a.score - b.score <= 0

\* (a, b) => b.score - a.score is not positive: sort leaves a before b
KeepsOrder(a, b) == b.score - a.score <= 0

\* .sort((a, b) => b.score - a.score): descending, stable
RECURSIVE InsertByScore(_, _)
InsertByScore(sorted, r) ==
    IF sorted = <<>> THEN <<r>>
    ELSE IF KeepsOrder(sorted[Len(sorted)], r) THEN Append(sorted, r)
    ELSE Append(InsertByScore(SubSeq(sorted, 1, Len(sorted) - 1), r),
                sorted[Len(sorted)])

RECURSIVE SortByScore(_)
SortByScore(s) ==
    IF s = <<>> THEN <<>>
    ELSE InsertByScore(SortByScore(SubSeq(s, 1, Len(s) - 1)), s[Len(s)])

\* const suspicious = reports.filter(...).sort(...)
Suspicious(rs) == SortByScore(SelectSeq(rs, IsSuspicious))

\* report.score >= 50 ? red : report.score >= 25 ? yellow : green
Color(score) ==
    IF score >= 50 THEN "red" ELSE IF score >= 25 THEN "yellow" ELSE "green"

\* flag.severity === 'high' ? '!' : flag.severity === 'medium' ? warning : info
SeverityMark(flag) ==
    IF flag.severity = "high" THEN "exclamation"
    ELSE IF flag.severity = "medium" THEN "warning" ELSE "info"

\* `${year}-${month}-${day} ${hours}:${minutes}` of the local fields
FormatDateForGit(date) ==
    [year |-> GetFullYear(date), month |-> GetMonth(date) + 1,
     day |-> GetDate(date), hours |-> GetHours(date),
     minutes |-> GetMinutes(date)]

\* console.log('No suspicious activity detected.')
NoActivityLine == [kind |-> "no-activity"]

\* the two lines and the flag lines printed for one report
ReportLines(r) ==
    << [kind |-> "repository", color |-> Color(r.score),
        repoName |-> r.repoName, score |-> r.score],
       [kind |-> "size", commitCount |-> r.commitCount,
        totalLines |-> r.totalLines] >>
    \o [i \in 1..Len(r.flags) |->
          [kind |-> "flag", severity |-> SeverityMark(r.flags[i]),
           message |-> r.flags[i].message, points |-> r.flags[i].points]]

\* suspicious.forEach(report => ...)
RECURSIVE AllReportLines(_)
AllReportLines(rs) ==
    IF rs = <<>> THEN <<>>
    ELSE ReportLines(Head(rs)) \o AllReportLines(Tail(rs))

\* printReport(reports, since, until): the lines it writes
printReport(rs, since, until) ==
    LET suspicious == Suspicious(rs)
    IN  IF Len(suspicious) = 0 THEN <<NoActivityLine>>
        ELSE << [kind |-> "title"], [kind |-> "rule"] >>
             \o AllReportLines(suspicious)
             \o << [kind |-> "rule"],
                   [kind |-> "total", count |-> Len(suspicious)],
                   [kind |-> "hint"],
                   [kind |-> "git-log", since |-> FormatDateForGit(since),
                    until |-> FormatDateForGit(until)] >>

---------------------------------------------------------------------------
(* The server (index.js): analyzeOrganization, started once by              *)
(* scheduleAnalysis and again by every cron tick without waiting for the     *)
(* run before, and GET /api/stats.  JavaScript runs one callback at a time:  *)
(* a run gives way to other runs and to requests only at an await, so a run  *)
(* is a sequence of atomic segments.  The awaits of one repository           *)
(* (getRepositoryCommits, then getCommitDetails per commit) are one segment  *)
(* here: between them the run writes only to its own locals.  githubService  *)
(* is outside this repository's sources; what it answers, and whether it     *)
(* rejects, is chosen freely.  A run is a record of the locals of one        *)
(* invocation plus two history fields: answers, what githubService answered  *)
(* for each repository so far, and finishedAt, the Date of its last segment. *)
(* now is the Date at which the callback at hand runs; the callbacks that    *)
(* read the clock leave it later than they found it: the next run may start  *)
(* a minute or a week after this one, the next assignment of currentStats    *)
(* comes a minute after this one.                                            *)

\* organization.name and organization.timeWindows[0] of the selected
\* organization in config
OrganizationName == "org"

\* Date.prototype.toISOString: the UTC fields (seconds and milliseconds are 0)
ToISOString(d) ==
    LET c == CivilFromDays(d.t \div 1440)
    IN  [year |-> c.year, month |-> c.month, day |-> c.day,
         hours |-> (d.t % 1440) \div 60, minutes |-> d.t % 60]

\* a run that has not been started
IdleRun ==
    [pc |-> "idle", timeWindow |-> [none |-> TRUE], repos |-> <<>>, next |-> 1,
     repoStats |-> <<>>, repoCommitsMap |-> <<>>, answers |-> <<>>,
     finishedAt |-> [none |-> TRUE]]

\* from the top of analyzeOrganization to await getOrgRepositories; a throw of
\* getLastTimeWindow is outside the try and ends the run
Started(run, timeWindow) ==
    IF HasField(timeWindow, "error")
    THEN [run EXCEPT !.pc = "failed", !.timeWindow = timeWindow]
    ELSE [run EXCEPT !.pc = "listing", !.timeWindow = timeWindow]

\* the body of for (const repo of repos) for the repository at run.next, given
\* the answer o of githubService: o.filtered commits are left after the
\* ignore list, o.detailed are the details that were not null
RepoStep(run, o) ==
    LET repo  == run.repos[run.next]
        entry == analyzeCommits(o.detailed)
                    @@ [name |-> repo.name, url |-> repo.html_url]
    IN  [run EXCEPT
            !.next = @ + 1,
            !.repoStats = IF o.filtered = 0 THEN @ ELSE Append(@, entry),
            !.repoCommitsMap =
                IF o.filtered > 0 /\ Len(o.detailed) > 0
                THEN Append(@, [repoName |-> repo.name, commits |-> o.detailed])
                ELSE @,
            !.answers = Append(@, o)]

\* mutant of LoopDone: currentStats is assigned inside the loop
LoopDone_AfterEachRepo(run) == TRUE

\* for (const repo of repos) has no repository left
LoopDone(run) == run.next > Len(run.repos)

\* currentStats = { organization, timeWindow: {...timeWindow, since, until},
\* lastUpdate, repositories: repoStats }
Published(run, at) ==
    [organization |-> OrganizationName,
     timeWindow   |-> [startDay  |-> args.startDayOrDate,
                       startTime |-> args.startTime,
                       endDay    |-> args.endDayOrDate,
                       endTime   |-> args.endTime,
                       since     |-> ToISOString(run.timeWindow.since),
                       until     |-> ToISOString(run.timeWindow.until)],
     lastUpdate   |-> ToISOString(at),
     repositories |-> run.repoStats]

\* for (const [repoName, commits] of repoCommitsMap)
\*     reports.push(suspiciousDetector.analyze(commits, repoName))
DetectedReports(run) ==
    [i \in 1..Len(run.repoCommitsMap) |->
        analyze(run.repoCommitsMap[i].commits, run.repoCommitsMap[i].repoName)]

\* if (config.detectSuspiciousActivity && repoCommitsMap.size > 0), with
\* detection switched on in config
Detects(run) == Len(run.repoCommitsMap) > 0

---------------------------------------------------------------------------
(* Inputs *)

RepoNames == {"repo-a", "repo-b"}

Msg_descriptive == <<"a", "d", "d", " ", "p", "a", "r", "s", "e", "r">>
Msg_fixed == <<"f", "i", "x", "e", "d">>
Msg_Fix_spaced == <<" ", "F", "i", "X", "\n">>
Msg_blank == <<" ", "\t">>

Commit(date, message, additions, deletions) ==
    [ date |-> date, message |-> message,
      stats |-> [additions |-> additions, deletions |-> deletions] ]

\* Spec: every rule can fire (63 lines within 30 seconds are too fast without
\* being a mass activity), and the sum of points can pass 100
MixedCommits ==
    { Commit(d, m, st[1], st[2]) :
        d \in {0, 30, 7200}, m \in {Str_fix, Msg_descriptive},
        st \in {<<0, 0>>, <<60, 3>>, <<400, 0>>} }

\* SpecTime: the spans 69, 120, 189, 480, 600 and 669 seconds between commits
TimeCommits ==
    { Commit(d, Msg_descriptive, st[1], st[2]) :
        d \in {0, 69, 189, 669},
        st \in {<<0, 0>>, <<113, 0>>, <<100, 15>>, <<300, 0>>} }

\* SpecLines: line counts on both sides of each threshold, and commits that
\* lack stats, additions or deletions
LinesStats ==
    { [additions |-> st[1], deletions |-> st[2]] :
        st \in {<<50, 0>>, <<51, 0>>, <<101, 0>>, <<100, 5>>, <<101, 5>>,
                <<300, 0>>, <<300, 1>>} }
      \cup {[additions |-> 51], [deletions |-> 5]}

LinesCommits ==
    { [date |-> 0, message |-> Msg_descriptive, stats |-> st] : st \in LinesStats }
      \cup {[date |-> 0, message |-> Msg_descriptive]}

\* SpecMsg: generic, decorated, empty, missing and descriptive messages
MsgCommits ==
    { [date |-> 0, message |-> m, stats |-> [additions |-> 10, deletions |-> 1]] :
        m \in {Str_fix, Msg_Fix_spaced, Msg_blank, Msg_fixed, <<".", ".">>} }
      \cup {[date |-> 0, stats |-> [additions |-> 10, deletions |-> 1]]}

LongMsgCommits ==
    { [date |-> 0, message |-> m, stats |-> [additions |-> 10, deletions |-> 1]] :
        m \in {Str_done, Msg_descriptive} }

\* SpecDegenerate: a null list, and commits without stats, without additions,
\* without deletions, with empty stats, without a message, with an empty
\* message, and without commit.author
DegenerateStats ==
    { [additions |-> 400], [deletions |-> 5], [additions |-> 60, deletions |-> 3] }

DegenerateCommits ==
    { [date |-> d, message |-> Msg_descriptive, stats |-> st] :
          d \in {0, 30}, st \in DegenerateStats }
      \cup { [date |-> d, message |-> <<>>, stats |-> st] :
                d \in {0, 30}, st \in DegenerateStats }
      \cup { [date |-> d, stats |-> st] : d \in {0, 30}, st \in DegenerateStats }
      \cup { [date |-> 0, stats |-> [unused |-> 0]],
             [date |-> 30, message |-> Msg_descriptive],
             [message |-> Msg_descriptive, stats |-> [additions |-> 60]] }

\* SpecScenarioD: the two commits of the "just below threshold" test, in both
\* list orders, at equal dates and 1 to 3600 seconds apart
Msg_Initial_commit ==
    <<"I", "n", "i", "t", "i", "a", "l", " ", "c", "o", "m", "m", "i", "t">>
Msg_Add_feature == <<"A", "d", "d", " ", "f", "e", "a", "t", "u", "r", "e">>

ScenarioDDates == {0, 1, 60, 77, 78, 102, 103, 3600}

ScenarioDLists ==
    { << Commit(d1, Msg_Initial_commit, 150, 20),
         Commit(d2, Msg_Add_feature, 120, 9) >> :
          d1 \in ScenarioDDates, d2 \in ScenarioDDates }
      \cup { << Commit(d2, Msg_Add_feature, 120, 9),
                Commit(d1, Msg_Initial_commit, 150, 20) >> :
                d1 \in ScenarioDDates, d2 \in ScenarioDDates }

NoReport == [pending |-> TRUE]

NoStats == [pending |-> TRUE]

NoArgs == [none |-> TRUE]

NoWindow == [pending |-> TRUE]

\* nothing has been handed to printReport and nothing has been printed
NoOutput == <<>>

PrinterIdle ==
    /\ reports = <<>>
    /\ printed = NoOutput

\* let currentStats = { organization: null, lastUpdate: null,
\* repositories: [] }; null is JsNull
JsNull == [null |-> TRUE]

InitialStats ==
    [organization |-> JsNull, lastUpdate |-> JsNull, repositories |-> <<>>]

\* analyzeOrganization has not been invoked
NoRuns == <<>>

\* GET /api/stats has not been answered
NoResponse == [none |-> TRUE]

\* commit lists whose reports score 0 (the first without a commit count),
\* 8, 20, 40 and 60
PrintLists ==
    { <<>>,
      <<Commit(30, Str_fix, 0, 0), Commit(30, Msg_descriptive, 60, 3)>>,
      <<Commit(30, Str_fix, 0, 0)>>,
      <<Commit(30, Msg_descriptive, 60, 3)>>,
      <<Commit(0, Str_fix, 400, 0), Commit(30, Str_fix, 0, 0)>>,
      <<Commit(0, Str_fix, 400, 0)>> }

\* reports.push(suspiciousDetector.analyze(commits, repoName))
PrintReports == {analyze(cs, name) : cs \in PrintLists, name \in RepoNames}

\* the server as it is before scheduleAnalysis starts the first run
ServerIdle ==
    /\ currentStats = InitialStats
    /\ runs = NoRuns
    /\ response = NoResponse

InitWith(inputs) ==
    /\ thresholds = Thresholds
    /\ commits \in inputs
    /\ repoName \in RepoNames
    /\ report = NoReport
    /\ stats = NoStats
    /\ args = NoArgs
    /\ now = DateAt(0)
    /\ tzOffset = 0
    /\ window = NoWindow
    /\ PrinterIdle
    /\ ServerIdle
    /\ calls = <<>>
    /\ pc = "ready"

Init == InitWith(SeqsUpTo(MaxCommits, MixedCommits))

InitTime == InitWith(SeqsUpTo(MaxCommits, TimeCommits))

InitLines == InitWith(SeqsUpTo(MaxCommits, LinesCommits))

InitMsg ==
    InitWith(SeqsUpTo(MaxMsgCommits, MsgCommits)
               \cup SeqsUpTo(MaxLongCommits, LongMsgCommits))

InitDegenerate == InitWith({Null} \cup SeqsUpTo(MaxCommits, DegenerateCommits))

InitScenarioD == InitWith(ScenarioDLists)

\* Inputs of getLastTimeWindow

Day_Monday == <<"M", "o", "n", "d", "a", "y">>
Day_Tuesday == <<"T", "u", "e", "s", "d", "a", "y">>
Day_Wednesday == <<"W", "e", "d", "n", "e", "s", "d", "a", "y">>
Day_Thursday == <<"T", "h", "u", "r", "s", "d", "a", "y">>
Day_Friday == <<"F", "r", "i", "d", "a", "y">>
Day_Saturday == <<"S", "a", "t", "u", "r", "d", "a", "y">>
Day_Sunday == <<"S", "u", "n", "d", "a", "y">>

DayNames ==
    {Day_Monday, Day_Tuesday, Day_Wednesday, Day_Thursday, Day_Friday,
     Day_Saturday, Day_Sunday}

Time_0000 == <<"0", "0", ":", "0", "0">>
Time_0900 == <<"0", "9", ":", "0", "0">>
Time_0930 == <<"0", "9", ":", "3", "0">>
Time_1100 == <<"1", "1", ":", "0", "0">>
Time_2359 == <<"2", "3", ":", "5", "9">>
Time_1030 == <<"1", "0", ":", "3", "0">>
Time_1745 == <<"1", "7", ":", "4", "5">>

Date_2026_02_16 == <<"2", "0", "2", "6", "-", "0", "2", "-", "1", "6">>
Date_2026_02_20 == <<"2", "0", "2", "6", "-", "0", "2", "-", "2", "0">>
Date_2026_03_01 == <<"2", "0", "2", "6", "-", "0", "3", "-", "0", "1">>
Date_2026_01_01 == <<"2", "0", "2", "6", "-", "0", "1", "-", "0", "1">>

\* 2026-02-16, a Monday: the first day the current time is drawn from
FirstDay == DaysFromCivil(2026, 2, 16)

\* local times of day of the current time: midnight, 09:00, 10:00 and 23:59
NowMinutes == {0, 540, 600, 1439}

\* the current time at local time-of-day m of the day d days after FirstDay
NowAt(d, m) == DateAt(1440 * (FirstDay + d) + m - tzOffset)

InitResolver(boundaries, times, offsets, days) ==
    /\ thresholds = Thresholds
    /\ commits = <<>>
    /\ repoName = "repo-a"
    /\ report = NoReport
    /\ stats = NoStats
    /\ args \in [ startDayOrDate : boundaries, startTime : times,
                   endDayOrDate : boundaries, endTime : times ]
    /\ tzOffset \in offsets
    /\ now \in {NowAt(d, m) : d \in days, m \in NowMinutes}
    /\ window = NoWindow
    /\ PrinterIdle
    /\ ServerIdle
    /\ calls = <<>>
    /\ pc = "ready"

\* SpecWindow: recurring windows over all pairs of day names, at every weekday
\* of the current time, west and east of UTC
InitWindow ==
    InitResolver(DayNames,
                 {Time_0000, Time_0900, Time_0930, Time_1100, Time_2359},
                 {-300, 60}, 0..MaxNowDay)

\* SpecDates: windows of calendar dates, and windows that mix a date with a
\* day name, in hosts from UTC-8 to UTC+5:30
InitDates ==
    InitResolver({Date_2026_02_16, Date_2026_02_20, Date_2026_03_01,
                  Date_2026_01_01, Day_Monday, Day_Friday},
                 {Time_0000, Time_1030, Time_1745, Time_2359},
                 {-480, -300, 0, 60, 330}, {0, MaxNowDay})

\* SpecCase: day names in lower case, capitalised, in upper case and in mixed
\* case
Day_MONDAY == <<"M", "O", "N", "D", "A", "Y">>
Day_mOnDaY == <<"m", "O", "n", "D", "a", "Y">>
Day_FRIDAY == <<"F", "R", "I", "D", "A", "Y">>

InitCase ==
    InitResolver({Day_Monday, Str_monday, Day_MONDAY, Day_mOnDaY,
                  Day_Friday, Str_friday, Day_FRIDAY},
                 {Time_0900, Time_1100}, {-300, 60}, 0..MaxNowDay)

\* SpecInvalid: day names that are no weekday, and time strings without colon,
\* with letters, and with nothing after the colon
Day_Funday == <<"F", "u", "n", "d", "a", "y">>
Day_Mon == <<"M", "o", "n">>

Time_0900_no_colon == <<"0", "9", "0", "0">>
Time_letters == <<"a", "b", ":", "c", "d">>
Time_9_colon == <<"9", ":">>

InitInvalid ==
    InitResolver({Day_Monday, Day_Funday, Day_Mon, Date_2026_02_16},
                 {Time_0900, Time_1100, Time_0900_no_colon, Time_letters,
                  Time_9_colon},
                 {-300, 60}, {0, MaxNowDay})

\* SpecResolverCalls: up to MaxCalls resolutions on one analyzer
InitResolverCalls ==
    InitResolver({Day_Monday, Day_Friday}, {Time_0900, Time_1100},
                 {-300, 60}, {0, 3})

\* SpecPrint: printReport on the reports of up to MaxReports repositories,
\* with the window of a lesson on 2026-02-16 from 09:00 to 11:00
InitPrint ==
    /\ thresholds = Thresholds
    /\ commits = <<>>
    /\ repoName = "repo-a"
    /\ report = NoReport
    /\ stats = NoStats
    /\ args = [startDayOrDate |-> Date_2026_02_16, startTime |-> Time_0900,
               endDayOrDate |-> Date_2026_02_16, endTime |-> Time_1100]
    /\ tzOffset = 60
    /\ now = NowAt(0, 600)
    /\ window = getLastTimeWindow(args.startDayOrDate, args.startTime,
                                  args.endDayOrDate, args.endTime)
    /\ reports \in SeqsUpTo(MaxReports, PrintReports)
    /\ printed = NoOutput
    /\ ServerIdle
    /\ calls = <<>>
    /\ pc = "ready"

\* what getOrgRepositories answers
Repo(name) == [name |-> name, html_url |-> "https://github.com/org/" \o name]

RepoLists == { <<>>, <<Repo("repo-a")>>, <<Repo("repo-a"), Repo("repo-b")>> }

\* what getRepositoryCommits and getCommitDetails answer for one repository:
\* no commit in the window, a commit whose details are null, one commit, two
\* commits
FetchOutcomes ==
    { [filtered |-> 0, detailed |-> <<>>],
      [filtered |-> 1, detailed |-> <<>>],
      [filtered |-> 1, detailed |-> <<Commit(0, Str_fix, 400, 0)>>],
      [filtered |-> 2, detailed |-> <<Commit(0, Str_fix, 400, 0),
                                      Commit(30, Msg_descriptive, 60, 3)>>] }

\* minutes in a week: a cron tick may come a week after the run before
WeekMinutes == 7 * 1440

\* SpecServer: the server after app.listen, before scheduleAnalysis starts the
\* initial run, on Monday 2026-02-16 at 10:00 local time, configured with a
\* lesson on Mondays from 09:00 to 11:00
InitServer ==
    /\ thresholds = Thresholds
    /\ commits = <<>>
    /\ repoName = "repo-a"
    /\ report = NoReport
    /\ stats = NoStats
    /\ args = [startDayOrDate |-> Day_Monday, startTime |-> Time_0900,
               endDayOrDate |-> Day_Monday, endTime |-> Time_1100]
    /\ tzOffset = 60
    /\ now = NowAt(0, 600)
    /\ window = NoWindow
    /\ PrinterIdle
    /\ currentStats = InitialStats
    /\ runs = [r \in 1..MaxRuns |-> IdleRun]
    /\ response = NoResponse
    /\ calls = <<>>
    /\ pc = "ready"

---------------------------------------------------------------------------
(* The call *)

ListAfterAnalyze_SortedInPlace(cs) ==
    IF IsNull(cs) \/ Len(cs) = 0 \/ SortThrows(cs) THEN cs ELSE SortByDate(cs)

\* The caller's list after analyze has returned: [...commits].sort(...) sorts a
\* copy, and no other statement of analyze writes to commits or its elements.
ListAfterAnalyze(cs) == cs

\* suspiciousDetector.analyze(commits, repoName).  The call is synchronous, so
\* it runs to its end before anything else of the process does; analyze reads
\* this.thresholds and assigns no field of the detector.
Analyze ==
    /\ pc = "ready"
    /\ report' = analyze(commits, repoName)
    /\ commits' = ListAfterAnalyze(commits)
    /\ calls' = Append(calls, [ commits |-> commits, repoName |-> repoName,
                                report |-> report', left |-> commits' ])
    /\ pc' = "done"
    /\ UNCHANGED <<thresholds, repoName, stats, resolverVars, printVars,
                   serverVars>>

Next == Analyze

\* analyzer.analyzeCommits(detailedCommits)
AnalyzeCommits ==
    /\ pc = "ready"
    /\ stats' = analyzeCommits(commits)
    /\ pc' = "done"
    /\ UNCHANGED <<thresholds, commits, repoName, report, resolverVars,
                   printVars, serverVars, calls>>

NextStats == AnalyzeCommits

\* the lists handed to a detector that serves several calls
CallCommits ==
    { Commit(0, Str_fix, 400, 0), Commit(30, Msg_descriptive, 60, 3),
      Commit(30, Str_fix, 0, 0) }

CallLists == SeqsUpTo(2, CallCommits)

\* the next repository of the loop over repoCommitsMap: another call of analyze
\* on the same detector
AnalyzeAgain ==
    /\ pc = "done"
    /\ Len(calls) < MaxCalls
    /\ commits' \in CallLists
    /\ repoName' \in RepoNames
    /\ report' = NoReport
    /\ pc' = "ready"
    /\ UNCHANGED <<thresholds, stats, resolverVars, printVars, serverVars,
                   calls>>

NextCalls == Analyze \/ AnalyzeAgain

Resolve_ReusesLastEnd(served, a) ==
    LET fresh == getLastTimeWindow(a.startDayOrDate, a.startTime,
                                   a.endDayOrDate, a.endTime)
    IN  IF served # <<>> /\ HasField(fresh, "since")
           /\ HasField(served[Len(served)].window, "until")
        THEN [since |-> served[Len(served)].window.until, until |-> fresh.until]
        ELSE fresh

\* analyzer.getLastTimeWindow(...) on an analyzer that has served the calls
\* served: CommitAnalyzer has no fields and the method reads nothing but its
\* arguments, new Date() and the host time zone.
Resolve(served, a) ==
    getLastTimeWindow(a.startDayOrDate, a.startTime, a.endDayOrDate, a.endTime)

GetLastTimeWindow ==
    /\ pc = "ready"
    /\ window' = Resolve(calls, args)
    /\ calls' = Append(calls, [args |-> args, now |-> now, window |-> window'])
    /\ pc' = "done"
    /\ UNCHANGED <<scorerVars, args, now, tzOffset, printVars, serverVars>>

NextResolver == GetLastTimeWindow

\* the windows handed to an analyzer that serves several calls
CallArgs ==
    [ startDayOrDate : {Day_Monday, Day_Friday}, startTime : {Time_0900},
      endDayOrDate : {Day_Monday, Day_Friday}, endTime : {Time_0900, Time_1100} ]

\* the next run of analyzeOrganization: another call of getLastTimeWindow on the
\* same analyzer, at once or three days later
GetLastTimeWindowAgain ==
    /\ pc = "done"
    /\ Len(calls) < MaxCalls
    /\ args' \in CallArgs
    /\ now' \in {now, DateAt(now.t + 3 * 1440)}
    /\ window' = NoWindow
    /\ pc' = "ready"
    /\ UNCHANGED <<scorerVars, tzOffset, printVars, serverVars, calls>>

NextResolverCalls == GetLastTimeWindow \/ GetLastTimeWindowAgain

Spec == Init /\ [][Next]_vars

SpecTime == InitTime /\ [][Next]_vars

SpecLines == InitLines /\ [][Next]_vars

SpecMsg == InitMsg /\ [][Next]_vars

SpecDegenerate == InitDegenerate /\ [][Next]_vars

SpecScenarioD == InitScenarioD /\ [][Next]_vars

SpecWindow == InitWindow /\ [][NextResolver]_vars

SpecDates == InitDates /\ [][NextResolver]_vars

SpecCase == InitCase /\ [][NextResolver]_vars

SpecInvalid == InitInvalid /\ [][NextResolver]_vars

\* SpecCalls: up to MaxCalls calls of analyze on one detector
InitCalls == InitWith(CallLists)

SpecCalls == InitCalls /\ [][NextCalls]_vars

\* SpecStats: analyzeCommits on the lists of SpecLines
\* suspiciousDetector.printReport(reports, since, until)
PrintReport ==
    /\ pc = "ready"
    /\ printed' = printed \o printReport(reports, window.since, window.until)
    /\ pc' = "done"
    /\ UNCHANGED <<scorerVars, resolverVars, reports, serverVars, calls>>

NextPrint == PrintReport

SpecPrint == InitPrint /\ [][NextPrint]_vars

\* what the server's callbacks leave alone
serverRest == <<scorerVars, args, tzOffset, window, calls, pc>>

\* analyzeOrganization(org) is called, by scheduleAnalysis for run 1 and by a
\* cron tick for the others, and runs up to await getOrgRepositories
StartRun(r) ==
    /\ runs[r].pc = "idle"
    /\ r > 1 => runs[r - 1].pc # "idle"
    /\ LET timeWindow == getLastTimeWindow(args.startDayOrDate, args.startTime,
                                           args.endDayOrDate, args.endTime)
       IN  runs' = [runs EXCEPT ![r] = Started(@, timeWindow)]
    /\ \E elapsed \in {1, WeekMinutes} : now' = DateAt(now.t + elapsed)
    /\ UNCHANGED <<serverRest, printVars, currentStats, response>>

\* the last segment of a run, from the end of the loop to the end of the try
\* block: currentStats is assigned, then the reports are built and printed;
\* toISOString of an invalid Date throws into the catch
Finish(r, run) ==
    IF IsValidDate(run.timeWindow.since) /\ IsValidDate(run.timeWindow.until)
    THEN /\ currentStats' = Published(run, now)
         /\ runs' = [runs EXCEPT ![r] =
                        [run EXCEPT !.pc = "done", !.finishedAt = now]]
         /\ now' = DateAt(now.t + 1)
         /\ IF Detects(run)
            THEN /\ reports' = DetectedReports(run)
                 /\ printed' = printed \o printReport(reports',
                                                        run.timeWindow.since,
                                                        run.timeWindow.until)
            ELSE UNCHANGED printVars
    ELSE /\ runs' = [runs EXCEPT ![r] = [run EXCEPT !.pc = "failed"]]
         /\ UNCHANGED <<currentStats, printVars, now>>

\* await getOrgRepositories resolves; the run goes on to the first await of
\* the loop, or to its end when there is no repository
ReposListed(r) ==
    /\ runs[r].pc = "listing"
    /\ \E repos \in RepoLists :
           LET run == [runs[r] EXCEPT !.repos = repos, !.pc = "fetching"]
           IN  IF LoopDone(run) THEN Finish(r, run)
               ELSE /\ runs' = [runs EXCEPT ![r] = run]
                    /\ UNCHANGED <<currentStats, printVars, now>>
    /\ UNCHANGED <<serverRest, response>>

\* the awaits for the repository at hand resolve; the run goes on to the next
\* repository, or to its end after the last one
RepoFetched(r) ==
    /\ runs[r].pc = "fetching"
    /\ \E o \in FetchOutcomes :
           LET run == RepoStep(runs[r], o)
           IN  IF LoopDone(run) THEN Finish(r, run)
               ELSE /\ runs' = [runs EXCEPT ![r] = run]
                    /\ UNCHANGED <<currentStats, printVars, now>>
    /\ UNCHANGED <<serverRest, response>>

\* an await of githubService rejects: catch (error) logs it and the run ends
RunFails(r) ==
    /\ runs[r].pc \in {"listing", "fetching"}
    /\ runs' = [runs EXCEPT ![r].pc = "failed"]
    /\ UNCHANGED <<serverRest, printVars, currentStats, response, now>>

\* app.get('/api/stats', (req, res) => res.json(currentStats))
GetStats ==
    /\ response' = currentStats
    /\ UNCHANGED <<scorerVars, resolverVars, printVars, currentStats, runs,
                   calls, pc>>

NextServer ==
    \/ \E r \in 1..MaxRuns : StartRun(r)
    \/ \E r \in 1..MaxRuns : ReposListed(r)
    \/ \E r \in 1..MaxRuns : RepoFetched(r)
    \/ \E r \in 1..MaxRuns : RunFails(r)
    \/ GetStats

SpecServer == InitServer /\ [][NextServer]_vars

SpecStats == InitLines /\ [][NextStats]_vars

SpecResolverCalls == InitResolverCalls /\ [][NextResolverCalls]_vars

---------------------------------------------------------------------------
(* Vocabulary of the claims.  It reads the input list as given (unsorted)  *)
(* and the returned report, not the intermediate values of analyze.        *)

Returned == pc = "done"

CommitCount == Len(commits)

RECURSIVE SumSeq(_)
SumSeq(s) == IF s = <<>> THEN 0 ELSE s[1] + SumSeq(Tail(s))

InputAdditions == SumSeq([i \in 1..Len(commits) |-> Additions(commits[i])])

InputDeletions == SumSeq([i \in 1..Len(commits) |-> Deletions(commits[i])])

InputLines == InputAdditions + InputDeletions

Dates == {commits[i].date : i \in 1..Len(commits)}

\* seconds between the earliest and the latest commit
SpanSeconds ==
    IF commits = <<>> THEN 0
    ELSE (CHOOSE d \in Dates : \A e \in Dates : e <= d)
           - (CHOOSE d \in Dates : \A e \in Dates : d <= e)

FlagsOfType(t) == {k \in 1..Len(report.flags) : report.flags[k].type = t}

HasFlag(t) == FlagsOfType(t) # {}

FlagsAre(t, points, severity) ==
    \A k \in FlagsOfType(t) :
        report.flags[k].points = points /\ report.flags[k].severity = severity

SumOfPoints ==
    SumSeq([k \in 1..Len(report.flags) |-> report.flags[k].points])

---------------------------------------------------------------------------
(* C1 *)

\* C1: the score of every returned report is an integer between 0 and 100.
C1_ScoreInRange == Returned => report.score \in 0..100

\* a report whose flags add up to more than 100 points and whose score is 100
C1_Witness == Returned /\ SumOfPoints > 100 /\ report.score = 100

---------------------------------------------------------------------------
(* C2 *)

\* C2: for a non-empty commit list the score is the sum of the points of the
\* flags in the report, capped at 100.
C2_ScoreIsCappedSum ==
    Returned /\ commits # <<>> => report.score = Min(100, SumOfPoints)

\* a report with several flags whose points add up to less than the cap
C2_Witness ==
    /\ Returned
    /\ Len(report.flags) >= 3
    /\ SumOfPoints < 100
    /\ report.score = SumOfPoints

---------------------------------------------------------------------------
(* C3 *)

\* C3: for an empty commit list the report has score 0, no flags, the given
\* repository label, commitCount 0 and totalLines 0.
C3_EmptyReportAsClaimed ==
    Returned /\ commits = <<>> =>
        /\ report.score = 0
        /\ report.flags = <<>>
        /\ report.repoName = repoName
        /\ HasField(report, "commitCount") /\ report.commitCount = 0
        /\ HasField(report, "totalLines") /\ report.totalLines = 0

---------------------------------------------------------------------------
(* C4 *)

\* C4: MASS_ACTIVITY is flagged exactly when there are at least 3 commits, at
\* least 200 lines in total and at most 10 minutes between the earliest and
\* the latest commit; its points are 50 * min(2, totalLines / 300) rounded to
\* the nearest integer (between 33 and 100), its severity is high from 500
\* lines on and medium below.
C4_MassActivityAsClaimed ==
    Returned =>
        /\ HasFlag("MASS_ACTIVITY") <=>
              (CommitCount >= 3 /\ InputLines >= 200 /\ SpanSeconds <= 10 * 60)
        /\ Cardinality(FlagsOfType("MASS_ACTIVITY")) <= 1
        /\ \A k \in FlagsOfType("MASS_ACTIVITY") :
              /\ report.flags[k].points
                    = RoundDiv(50 * Min(2 * 300, InputLines), 300)
              /\ report.flags[k].points \in 33..100
              /\ report.flags[k].severity
                    = IF InputLines >= 500 THEN "high" ELSE "medium"

---------------------------------------------------------------------------
(* C5 *)

\* C5: the report holds one MASS_COMMIT flag (20 points, high) per commit of
\* more than 300 changed lines, and none for a commit of 300 lines or fewer.
C5_MassCommitPerCommit ==
    Returned =>
        /\ Cardinality(FlagsOfType("MASS_COMMIT"))
              = Cardinality({i \in 1..Len(commits) : CommitLines(commits[i]) > 300})
        /\ FlagsAre("MASS_COMMIT", 20, "high")

\* two commits over 300 lines are flagged, one of exactly 300 lines is not
C5_Witness ==
    /\ Returned
    /\ Cardinality(FlagsOfType("MASS_COMMIT")) = 2
    /\ \E i \in 1..Len(commits) : CommitLines(commits[i]) = 300

---------------------------------------------------------------------------
(* C6 *)

\* C6: SINGLE_COMMIT (20 points, high) is flagged exactly when the list holds
\* one commit and that commit has more than 50 additions.
C6_SingleCommitIff ==
    Returned =>
        /\ HasFlag("SINGLE_COMMIT") <=>
              (CommitCount = 1 /\ Additions(commits[1]) > 50)
        /\ Cardinality(FlagsOfType("SINGLE_COMMIT")) <= 1
        /\ FlagsAre("SINGLE_COMMIT", 20, "high")

\* a single commit of 51 additions is flagged
C6_Witness ==
    /\ Returned
    /\ CommitCount = 1
    /\ Additions(commits[1]) = 51
    /\ HasFlag("SINGLE_COMMIT")

---------------------------------------------------------------------------
(* C7 *)

\* C7: NO_CORRECTIONS (10 points, low) is flagged exactly when there are
\* deletions and more than 20 additions per deletion; ONLY_ADDITIONS (12 points,
\* low) exactly when there are no deletions and more than 100 additions; no
\* report holds both.
C7_CorrectionsIff ==
    Returned =>
        /\ HasFlag("NO_CORRECTIONS") <=>
              (InputDeletions > 0 /\ InputAdditions > 20 * InputDeletions)
        /\ HasFlag("ONLY_ADDITIONS") <=>
              (InputDeletions = 0 /\ InputAdditions > 100)
        /\ ~(HasFlag("NO_CORRECTIONS") /\ HasFlag("ONLY_ADDITIONS"))
        /\ Cardinality(FlagsOfType("NO_CORRECTIONS")) <= 1
        /\ Cardinality(FlagsOfType("ONLY_ADDITIONS")) <= 1
        /\ FlagsAre("NO_CORRECTIONS", 10, "low")
        /\ FlagsAre("ONLY_ADDITIONS", 12, "low")

\* NO_CORRECTIONS is flagged in a list that has deletions
C7_Witness ==
    /\ Returned
    /\ CommitCount >= 2
    /\ InputDeletions > 0
    /\ HasFlag("NO_CORRECTIONS")

---------------------------------------------------------------------------
(* C8 *)

\* C8 as stated: RAPID_FIRE is flagged exactly when there are at least 3
\* commits, at most 120 seconds between the earliest and the latest commit (120
\* seconds included) and no MASS_ACTIVITY flag.
C8_RapidFireAsClaimed ==
    Returned =>
        (HasFlag("RAPID_FIRE") <=>
            (CommitCount >= 3 /\ SpanSeconds <= 120 /\ ~HasFlag("MASS_ACTIVITY")))

\* C8 as amended: RAPID_FIRE (15 points, medium) is flagged exactly when there
\* are at least 3 commits, strictly less than 120 seconds between the earliest
\* and the latest commit and no MASS_ACTIVITY flag; no report holds both
\* RAPID_FIRE and MASS_ACTIVITY.
C8_RapidFireIff ==
    Returned =>
        /\ HasFlag("RAPID_FIRE") <=>
              (CommitCount >= 3 /\ SpanSeconds < 120 /\ ~HasFlag("MASS_ACTIVITY"))
        /\ ~(HasFlag("RAPID_FIRE") /\ HasFlag("MASS_ACTIVITY"))
        /\ Cardinality(FlagsOfType("RAPID_FIRE")) <= 1
        /\ FlagsAre("RAPID_FIRE", 15, "medium")

\* three commits within 69 seconds and under 200 lines are flagged RAPID_FIRE
C8_Witness ==
    /\ Returned
    /\ CommitCount >= 3
    /\ SpanSeconds = 69
    /\ HasFlag("RAPID_FIRE")

---------------------------------------------------------------------------
(* C9 *)

\* the commits in ascending order of date
Ordered == SortByDate(commits)

\* the lines of commit i + 1 divided by the minutes since commit i exceed 100
\* (no quotient, and so no excess, when the two dates are equal)
PairTooFast(i) ==
    LET seconds == Ordered[i + 1].date - Ordered[i].date
    IN  seconds > 0 /\ 60 * CommitLines(Ordered[i + 1]) > 100 * seconds

FastPairs == {i \in 1..(Len(commits) - 1) : PairTooFast(i)}

\* the message of the UNREALISTIC_SPEED flag for the pair (i, i + 1)
SpeedMessage(i) ==
    ToString(RoundDiv(60 * CommitLines(Ordered[i + 1]),
                      Ordered[i + 1].date - Ordered[i].date))
      \o " lines/min between commits " \o ToString(i) \o " and " \o ToString(i + 1)

\* C9: UNREALISTIC_SPEED (25 points, high) is flagged once, for the first
\* consecutive pair in date order whose later commit changes more than 100 lines
\* per minute elapsed since the earlier one, and is flagged whenever such a
\* pair exists (and only then).
C9_SpeedAsClaimed ==
    Returned =>
        /\ HasFlag("UNREALISTIC_SPEED") <=> FastPairs # {}
        /\ Cardinality(FlagsOfType("UNREALISTIC_SPEED")) <= 1
        /\ FlagsAre("UNREALISTIC_SPEED", 25, "high")
        /\ \A k \in FlagsOfType("UNREALISTIC_SPEED") :
              \E i \in FastPairs :
                  /\ \A j \in FastPairs : i <= j
                  /\ report.flags[k].message = SpeedMessage(i)

---------------------------------------------------------------------------
(* C10 *)

GenericWords ==
    { Str_update, Str_fix, Str_done, Str_asdf, Str_test, Str_commit,
      <<".">>, <<".", ".">>, <<".", ".", ".">> }

\* the commits whose trimmed, lower-cased message is empty or a generic word
GenericCommits ==
    { i \in 1..Len(commits) :
        LET m == ToLowerCase(Trim(MessageOf(commits[i])))
        IN  m = <<>> \/ m \in GenericWords }

\* C10: for a non-empty list, GENERIC_MESSAGES (8 points, low) is flagged
\* exactly when every commit is generic, MOSTLY_GENERIC (5 points, low) exactly
\* when not all but at least 70% of the commits are generic, and never both.
C10_GenericIff ==
    Returned /\ commits # <<>> =>
        /\ HasFlag("GENERIC_MESSAGES") <=>
              Cardinality(GenericCommits) = CommitCount
        /\ HasFlag("MOSTLY_GENERIC") <=>
              /\ Cardinality(GenericCommits) # CommitCount
              /\ 100 * Cardinality(GenericCommits) >= 70 * CommitCount
        /\ ~(HasFlag("GENERIC_MESSAGES") /\ HasFlag("MOSTLY_GENERIC"))
        /\ Cardinality(FlagsOfType("GENERIC_MESSAGES")) <= 1
        /\ Cardinality(FlagsOfType("MOSTLY_GENERIC")) <= 1
        /\ FlagsAre("GENERIC_MESSAGES", 8, "low")
        /\ FlagsAre("MOSTLY_GENERIC", 5, "low")

\* exactly 7 generic messages out of 10 are flagged MOSTLY_GENERIC
C10_Witness ==
    /\ Returned
    /\ CommitCount = 10
    /\ Cardinality(GenericCommits) = 7
    /\ HasFlag("MOSTLY_GENERIC")

---------------------------------------------------------------------------
(* C11 *)

\* position of a flag type in the order in which the rules run
FlagRank(t) ==
    CASE t = "MASS_ACTIVITY" -> 0
      [] t = "MASS_COMMIT" -> 1
      [] t = "SINGLE_COMMIT" -> 2
      [] t \in {"NO_CORRECTIONS", "ONLY_ADDITIONS"} -> 3
      [] t = "RAPID_FIRE" -> 4
      [] t = "UNREALISTIC_SPEED" -> 5
      [] t \in {"GENERIC_MESSAGES", "MOSTLY_GENERIC"} -> 6

\* positions, in date order, of the commits of more than 300 lines
HeavyCommits == {i \in 1..Len(Ordered) : CommitLines(Ordered[i]) > 300}

\* C11: the flags of a report are in detection order: MASS_ACTIVITY, then the
\* MASS_COMMIT flags in ascending order of commit date, then SINGLE_COMMIT,
\* then NO_CORRECTIONS or ONLY_ADDITIONS, then RAPID_FIRE, then
\* UNREALISTIC_SPEED, then GENERIC_MESSAGES or MOSTLY_GENERIC.
C11_DetectionOrder ==
    Returned =>
        /\ \A j, k \in 1..Len(report.flags) :
              j < k => FlagRank(report.flags[j].type)
                         <= FlagRank(report.flags[k].type)
        /\ \A k \in FlagsOfType("MASS_COMMIT") :
              \E i \in HeavyCommits :
                  /\ Cardinality({h \in HeavyCommits : h <= i})
                       = Cardinality({j \in FlagsOfType("MASS_COMMIT") : j <= k})
                  /\ report.flags[k].message
                       = "Commit " \o ToString(i) \o ": "
                           \o ToString(CommitLines(Ordered[i]))
                           \o " lines in single commit"

\* a list given latest commit first whose report carries RAPID_FIRE,
\* UNREALISTIC_SPEED and GENERIC_MESSAGES, in that order
C11_Witness ==
    /\ Returned
    /\ CommitCount = 3
    /\ commits[1].date > commits[2].date
    /\ Len(report.flags) = 3
    /\ report.flags[1].type = "RAPID_FIRE"
    /\ report.flags[2].type = "UNREALISTIC_SPEED"
    /\ report.flags[3].type = "GENERIC_MESSAGES"

\* a list given latest commit first whose report carries MASS_ACTIVITY and then
\* the MASS_COMMIT flags of its second and third commit in date order
C11_WitnessMassCommits ==
    /\ Returned
    /\ CommitCount = 3
    /\ commits[1].date > commits[3].date
    /\ Len(report.flags) >= 3
    /\ report.flags[1].type = "MASS_ACTIVITY"
    /\ report.flags[2].type = "MASS_COMMIT"
    /\ report.flags[3].type = "MASS_COMMIT"
    /\ HeavyCommits = {2, 3}

---------------------------------------------------------------------------
(* C12 *)

\* C12: for a non-empty commit list, commitCount is the number of commits given
\* and totalLines the sum of their additions and deletions, whichever rules
\* fired.
C12_CountAndLines ==
    Returned /\ commits # <<>> =>
        /\ report.commitCount = CommitCount
        /\ report.totalLines = InputLines

\* three commits, one of them without stats, with deletions among the lines and
\* at least one flag in the report
C12_Witness ==
    /\ Returned
    /\ CommitCount = 3
    /\ \E i \in 1..3 : ~HasField(commits[i], "stats")
    /\ InputDeletions > 0
    /\ report.flags # <<>>
    /\ report.totalLines = InputLines

---------------------------------------------------------------------------
(* C13 *)

Raised == Returned /\ HasField(report, "error")

\* a report with every field of a suspicion report
WellFormed(r) ==
    /\ DOMAIN r = {"repoName", "score", "flags", "commitCount", "totalLines"}
    /\ r.repoName = repoName
    /\ r.score \in 0..100
    /\ r.commitCount \in Nat
    /\ r.totalLines \in Nat

\* C13: analyze never raises: for every input, a null or empty list and
\* commits without stats, additions, deletions or message included, it returns
\* a well-formed report.
C13_NeverRaisesAsClaimed == Returned => ~Raised /\ WellFormed(report)

\* what holds instead of C13: analyze raises only for a list of two or more
\* commits one of which has no commit.author, and the report is well-formed
\* whenever the list is neither null nor empty
C13_RaisesOnlyWithoutAuthor ==
    Returned =>
        /\ Raised <=>
              /\ ~IsNull(commits)
              /\ Len(commits) >= 2
              /\ \E i \in 1..Len(commits) : ~HasField(commits[i], "date")
        /\ ~Raised /\ ~IsNull(commits) /\ commits # <<>> => WellFormed(report)

---------------------------------------------------------------------------
(* C14 *)

\* the commit with every absent value written out: additions and deletions 0,
\* message the empty string
Filled(c) ==
    [ date    |-> c.date,
      message |-> IF HasField(c, "message") THEN c.message ELSE <<>>,
      stats   |-> [ additions |-> IF HasField(c, "stats")
                                      /\ HasField(c.stats, "additions")
                                   THEN c.stats.additions ELSE 0,
                    deletions |-> IF HasField(c, "stats")
                                      /\ HasField(c.stats, "deletions")
                                   THEN c.stats.deletions ELSE 0 ] ]

IsFilled(c) ==
    /\ HasField(c, "message")
    /\ HasField(c, "stats")
    /\ HasField(c.stats, "additions")
    /\ HasField(c.stats, "deletions")

Dated == ~IsNull(commits) /\ \A i \in 1..Len(commits) : HasField(commits[i], "date")

\* C14: an absent additions or deletions value counts as 0 in every rule and an
\* absent or empty message counts as generic: the report of a list is the
\* report of the same list with the absent values written out as 0 and as the
\* empty string, and a list whose messages are all absent or empty is flagged
\* GENERIC_MESSAGES.
C14_AbsentIsZeroOrGeneric ==
    Returned /\ Dated /\ commits # <<>> =>
        /\ report = analyze([i \in 1..Len(commits) |-> Filled(commits[i])],
                            repoName)
        /\ (\A i \in 1..Len(commits) :
               ~HasField(commits[i], "message") \/ commits[i].message = <<>>)
             => HasFlag("GENERIC_MESSAGES")

\* three commits, none with all its values, with a message absent, additions
\* absent and deletions absent, whose report has a MASS_COMMIT flag and an
\* UNREALISTIC_SPEED flag computed from the values that are present
C14_Witness ==
    /\ Returned /\ Dated
    /\ CommitCount = 3
    /\ \A i \in 1..3 : ~IsFilled(commits[i])
    /\ \E i \in 1..3 : ~HasField(commits[i], "message")
    /\ \E i \in 1..3 : ~HasField(commits[i], "stats")
    /\ \E i \in 1..3 :
          HasField(commits[i], "stats") /\ ~HasField(commits[i].stats, "deletions")
    /\ \E i \in 1..3 :
          HasField(commits[i], "stats") /\ ~HasField(commits[i].stats, "additions")
    /\ HasFlag("MASS_COMMIT")
    /\ HasFlag("UNREALISTIC_SPEED")

---------------------------------------------------------------------------
(* C15 *)

\* the commits are the two of scenario D: 150 + 20 lines and 120 + 9 lines
IsScenarioD ==
    /\ CommitCount = 2
    /\ {<<Additions(commits[i]), Deletions(commits[i])>> : i \in 1..2}
         = {<<150, 20>>, <<120, 9>>}

\* C15 as claimed: the two commits of scenario D give score 0 and no flags
\* whatever their two timestamps are.
C15_ScoreZeroAsClaimed ==
    Returned /\ IsScenarioD => report.score = 0 /\ report.flags = <<>>

\* the later commit of the two holds more than 100 lines per minute elapsed
\* since the earlier one
LaterCommitTooFast ==
    /\ SpanSeconds > 0
    /\ 60 * CommitLines(Ordered[2]) > 100 * SpanSeconds

\* C15, amended: the two commits of scenario D give score 0 and no flags when
\* their timestamps are equal or so far apart that the lines of the later
\* commit per minute between them do not exceed 100; otherwise the report has
\* the single flag UNREALISTIC_SPEED and score 25.
C15_ScoreZeroUnlessTooFast ==
    Returned /\ IsScenarioD =>
        IF LaterCommitTooFast
        THEN /\ report.score = 25
             /\ Len(report.flags) = 1
             /\ report.flags[1].type = "UNREALISTIC_SPEED"
        ELSE report.score = 0 /\ report.flags = <<>>

\* the commit of 170 lines comes 102 seconds after the other, exactly 100 lines
\* per minute, and the score is 0
C15_Witness ==
    /\ Returned /\ IsScenarioD
    /\ SpanSeconds = 102
    /\ CommitLines(Ordered[2]) = 170
    /\ report.score = 0

---------------------------------------------------------------------------
(* Vocabulary of the claims about getLastTimeWindow *)

DateStrings == {Date_2026_02_16, Date_2026_02_20, Date_2026_03_01, Date_2026_01_01}

StartIsDate == args.startDayOrDate \in DateStrings
EndIsDate == args.endDayOrDate \in DateStrings
StartIsDay == args.startDayOrDate \in DayNames
EndIsDay == args.endDayOrDate \in DayNames

Threw == Returned /\ HasField(window, "error")

GaveWindow == Returned /\ HasField(window, "since") /\ HasField(window, "until")

\* the configured values, read off the argument strings
ConfiguredDate(s) ==
    [ year  |-> DecimalValue(SubSeq(s, 1, 4)),
      month |-> DecimalValue(SubSeq(s, 6, 7)),
      day   |-> DecimalValue(SubSeq(s, 9, 10)) ]

ConfiguredMinutes(s) ==
    60 * DecimalValue(SubSeq(s, 1, 2)) + DecimalValue(SubSeq(s, 4, 5))

\* 0 for Sunday to 6 for Saturday
ConfiguredDay(s) ==
    CASE s = Day_Sunday -> 0 [] s = Day_Monday -> 1 [] s = Day_Tuesday -> 2
      [] s = Day_Wednesday -> 3 [] s = Day_Thursday -> 4 [] s = Day_Friday -> 5
      [] s = Day_Saturday -> 6

\* the Date shows the given calendar date and time of day in local time
ShowsLocally(d, date, minutes) ==
    /\ IsValidDate(d)
    /\ GetFullYear(d) = date.year
    /\ GetMonth(d) + 1 = date.month
    /\ GetDate(d) = date.day
    /\ 60 * GetHours(d) + GetMinutes(d) = minutes

\* the Date falls on the given weekday at the given time of day in local time
FallsOn(d, day, minutes) ==
    /\ IsValidDate(d)
    /\ GetDay(d) = day
    /\ 60 * GetHours(d) + GetMinutes(d) = minutes

---------------------------------------------------------------------------
(* C16 *)

\* C16: when exactly one of the two boundaries is a calendar date and the other
\* a day name, in either order, getLastTimeWindow throws the configuration
\* error and returns no window.
C16_MixedThrows ==
    Returned /\ ((StartIsDate /\ EndIsDay) \/ (StartIsDay /\ EndIsDate)) =>
        /\ window = MixedFormatError
        /\ ~GaveWindow

\* a call with a day name as start and a calendar date as end has thrown
C16_Witness == Threw /\ StartIsDay /\ EndIsDate

---------------------------------------------------------------------------
(* C17 *)

\* C17: for a window of two calendar dates, at every current time and in every
\* host time zone, since shows the start date at the start time and until the
\* end date at the end time in local time (year, month, day, hour, minute).
C17_LocalFieldsAsClaimed ==
    Returned /\ StartIsDate /\ EndIsDate =>
        /\ GaveWindow
        /\ ShowsLocally(window.since, ConfiguredDate(args.startDayOrDate),
                        ConfiguredMinutes(args.startTime))
        /\ ShowsLocally(window.until, ConfiguredDate(args.endDayOrDate),
                        ConfiguredMinutes(args.endTime))

\* what holds instead of C17: east of UTC and at UTC the local fields are the
\* configured ones; west of UTC the time of day is the configured one and the
\* calendar day is the day before the configured date
C17_LocalFieldsByOffset ==
    Returned /\ StartIsDate /\ EndIsDate =>
        /\ GaveWindow
        /\ LET shift == IF tzOffset < 0 THEN 1 ELSE 0
               start == ConfiguredDate(args.startDayOrDate)
               end   == ConfiguredDate(args.endDayOrDate)
           IN  /\ window.since.t
                    = 1440 * (DaysFromCivil(start.year, start.month, start.day)
                                - shift)
                        + ConfiguredMinutes(args.startTime) - tzOffset
               /\ window.until.t
                    = 1440 * (DaysFromCivil(end.year, end.month, end.day) - shift)
                        + ConfiguredMinutes(args.endTime) - tzOffset
        /\ tzOffset >= 0 =>
              /\ ShowsLocally(window.since, ConfiguredDate(args.startDayOrDate),
                              ConfiguredMinutes(args.startTime))
              /\ ShowsLocally(window.until, ConfiguredDate(args.endDayOrDate),
                              ConfiguredMinutes(args.endTime))

---------------------------------------------------------------------------
(* C18 *)

Recurring == StartIsDay /\ EndIsDay

\* today is the end day and the end time has not yet occurred today
EndStillAheadToday ==
    /\ GetDay(now) = ConfiguredDay(args.endDayOrDate)
    /\ LocalMinuteOfDay(now) < ConfiguredMinutes(args.endTime)

C18_WitnessNow ==
    /\ Returned /\ Recurring
    /\ window.until = now

---------------------------------------------------------------------------
(* C19 *)

\* the week-spanning case: same day, end time earlier in the day than start time
WeekSpanning ==
    /\ ConfiguredDay(args.startDayOrDate) = ConfiguredDay(args.endDayOrDate)
    /\ ConfiguredMinutes(args.endTime) < ConfiguredMinutes(args.startTime)

\* (endDayNumber - startDayNumber + 7) mod 7, and 7 in the week-spanning case
ClaimedDayDiff ==
    IF WeekSpanning THEN 7
    ELSE (ConfiguredDay(args.endDayOrDate) - ConfiguredDay(args.startDayOrDate)
            + 7) % 7

\* C19: for a recurring window, until falls on the end day at the end time, and
\* since is the calendar day dayDiff days before until at the start time, so
\* since falls on the start day at the start time.
C19_SinceIsUntilShiftedBack ==
    Returned /\ Recurring =>
        /\ GaveWindow
        /\ FallsOn(window.until, ConfiguredDay(args.endDayOrDate),
                   ConfiguredMinutes(args.endTime))
        /\ IsValidDate(window.since)
        /\ LocalDay(window.since) = LocalDay(window.until) - ClaimedDayDiff
        /\ LocalMinuteOfDay(window.since) = ConfiguredMinutes(args.startTime)
        /\ FallsOn(window.since, ConfiguredDay(args.startDayOrDate),
                   ConfiguredMinutes(args.startTime))

\* a window from Friday to Tuesday: since is the Friday 4 days before until
C19_Witness ==
    /\ Returned /\ Recurring
    /\ args.startDayOrDate = Day_Friday
    /\ args.endDayOrDate = Day_Tuesday
    /\ LocalDay(window.until) - LocalDay(window.since) = 4
    /\ GetDay(window.since) = 5

---------------------------------------------------------------------------
(* C20 *)

C20_WitnessShortest ==
    /\ Returned
    /\ args.startTime = Time_2359 /\ args.endTime = Time_0000
    /\ args.startDayOrDate = args.endDayOrDate
    /\ window.until.t - window.since.t = 6 * 1440 + 1

---------------------------------------------------------------------------
(* C21 *)

SameDayAndTime ==
    /\ ConfiguredDay(args.startDayOrDate) = ConfiguredDay(args.endDayOrDate)
    /\ ConfiguredMinutes(args.startTime) = ConfiguredMinutes(args.endTime)

\* C21: for every recurring window and every current time since <= until, and
\* since < until unless the start day is the end day and the start time the end
\* time.
C21_SinceNotAfterUntil ==
    Returned /\ Recurring =>
        /\ GaveWindow
        /\ IsValidDate(window.since) /\ IsValidDate(window.until)
        /\ window.since.t <= window.until.t
        /\ ~SameDayAndTime => window.since.t < window.until.t

\* Monday 09:30 to Monday 09:00, the end time half an hour before the start
\* time: since lies before until
C21_Witness ==
    /\ Returned
    /\ args.startDayOrDate = Day_Monday /\ args.endDayOrDate = Day_Monday
    /\ args.startTime = Time_0930 /\ args.endTime = Time_0900
    /\ window.since.t < window.until.t

\* same day and same time: the window is empty, since = until
C21_WitnessEmpty ==
    /\ Returned /\ Recurring /\ SameDayAndTime
    /\ window.since = window.until

---------------------------------------------------------------------------
(* C22 *)

\* the spellings of Monday and of Friday
MondaySpellings == {Day_Monday, Str_monday, Day_MONDAY, Day_mOnDaY}
FridaySpellings == {Day_Friday, Str_friday, Day_FRIDAY}

\* the capitalised spelling of a day name
Capitalised(s) ==
    CASE s \in MondaySpellings -> Day_Monday
      [] s \in FridaySpellings -> Day_Friday

\* C22: day names are matched whatever their letter case: at the same current
\* time a recurring window resolves to the same since and until as the window
\* with its day names in the capitalised spelling, and both fall on the named
\* weekdays.
C22_CaseInsensitive ==
    Returned
      /\ args.startDayOrDate \in MondaySpellings \cup FridaySpellings
      /\ args.endDayOrDate \in MondaySpellings \cup FridaySpellings =>
        /\ GaveWindow
        /\ window = getLastTimeWindow(Capitalised(args.startDayOrDate),
                                      args.startTime,
                                      Capitalised(args.endDayOrDate),
                                      args.endTime)
        /\ FallsOn(window.since,
                   ConfiguredDay(Capitalised(args.startDayOrDate)),
                   ConfiguredMinutes(args.startTime))
        /\ FallsOn(window.until, ConfiguredDay(Capitalised(args.endDayOrDate)),
                   ConfiguredMinutes(args.endTime))

\* a window from 'mOnDaY' to 'FRIDAY' resolves to a Monday and a Friday
C22_Witness ==
    /\ Returned
    /\ args.startDayOrDate = Day_mOnDaY
    /\ args.endDayOrDate = Day_FRIDAY
    /\ GaveWindow
    /\ GetDay(window.since) = 1
    /\ GetDay(window.until) = 5

---------------------------------------------------------------------------
(* C23 *)

\* a boundary that is neither a calendar date nor one of the seven day names
UnknownDay(s) == s \in {Day_Funday, Day_Mon}

\* a time string that is not HH:MM
Malformed(s) == s \in {Time_0900_no_colon, Time_letters, Time_9_colon}

InvalidInput ==
    \/ UnknownDay(args.startDayOrDate)
    \/ UnknownDay(args.endDayOrDate)
    \/ Malformed(args.startTime)
    \/ Malformed(args.endTime)

\* C23: a call with an unknown day name or a malformed time string ends in an
\* error and never gives a since/until result.
C23_RejectsInvalidAsClaimed == Returned /\ InvalidInput => Threw /\ ~GaveWindow

\* what holds instead of C23: the only error is the one for a date mixed with a
\* non-date; otherwise a window is returned, whose until is an invalid Date
\* for an unknown end day or an end time with a part that is no number, and
\* whose since is an invalid Date when until is or for an unknown start day or
\* such a start time; '9:' is read as 9:00.
C23_InvalidGivesWindow ==
    Returned =>
        /\ Threw <=> (args.startDayOrDate = Date_2026_02_16)
                        # (args.endDayOrDate = Date_2026_02_16)
        /\ ~Threw =>
              /\ GaveWindow
              /\ IsValidDate(window.until) <=>
                    /\ ~UnknownDay(args.endDayOrDate)
                    /\ args.endTime \notin {Time_0900_no_colon, Time_letters}
              /\ IsValidDate(window.since) <=>
                    /\ IsValidDate(window.until) \/ StartIsDate
                    /\ ~UnknownDay(args.startDayOrDate)
                    /\ args.startTime \notin {Time_0900_no_colon, Time_letters}

---------------------------------------------------------------------------
(* C24 *)

---------------------------------------------------------------------------
(* C25 *)

---------------------------------------------------------------------------
(* C26 *)

\* the sum of a stats value over the commits that have stats
StatsSum(f) ==
    SumSeq([i \in 1..Len(commits) |->
               IF HasField(commits[i], "stats") /\ HasField(commits[i].stats, f)
               THEN commits[i].stats[f] ELSE 0])

\* C26: analyzeCommits returns commitCount = the number of commits given,
\* totalAdditions and totalDeletions summed over the commits with stats,
\* totalLinesChanged their sum, and avgLinesPerCommit = totalLinesChanged /
\* commitCount rounded to the nearest integer (half up), 0 for an empty list.
C26_StatsAsClaimed ==
    Returned =>
        /\ stats.commitCount = CommitCount
        /\ stats.totalAdditions = StatsSum("additions")
        /\ stats.totalDeletions = StatsSum("deletions")
        /\ stats.totalLinesChanged = stats.totalAdditions + stats.totalDeletions
        /\ stats.avgLinesPerCommit \in Nat
        /\ IF CommitCount = 0 THEN stats.avgLinesPerCommit = 0
           ELSE /\ 2 * stats.avgLinesPerCommit * CommitCount - CommitCount
                     <= 2 * stats.totalLinesChanged
                /\ 2 * stats.totalLinesChanged
                     < 2 * stats.avgLinesPerCommit * CommitCount + CommitCount

\* two commits, one without stats and one with 51 additions only: the average
\* of 25.5 lines is rounded to 26
C26_Witness ==
    /\ Returned
    /\ CommitCount = 2
    /\ \E i \in 1..2 : ~HasField(commits[i], "stats")
    /\ stats.totalLinesChanged = 51
    /\ stats.avgLinesPerCommit = 26

---------------------------------------------------------------------------
(* C27 *)

\* the positions of the reports handed to printReport whose score exceeds 0
PositiveReports == {i \in 1..Len(reports) : reports[i].score > 0}

\* what the output lists: repository name and score of each repository line
Listed ==
    LET lines == SelectSeq(printed, LAMBDA l : l.kind = "repository")
    IN  [i \in 1..Len(lines) |->
           [repoName |-> lines[i].repoName, score |-> lines[i].score]]

\* the output lists each report of positive score once and nothing else
ListsExactlyPositive ==
    \E f \in [1..Len(Listed) -> PositiveReports] :
        /\ \A i, j \in 1..Len(Listed) : i # j => f[i] # f[j]
        /\ \A k \in PositiveReports : \E i \in 1..Len(Listed) : f[i] = k
        /\ \A i \in 1..Len(Listed) :
               Listed[i] = [repoName |-> reports[f[i]].repoName,
                            score |-> reports[f[i]].score]

\* C27: printReport lists exactly the reports whose score is greater than 0,
\* in descending order of score; when no report has a score greater than 0 it
\* prints the 'No suspicious activity' line and nothing else.
C27_ListsPositiveDescending ==
    Returned =>
        IF PositiveReports = {} THEN printed = <<NoActivityLine>>
        ELSE /\ ListsExactlyPositive
             /\ \A i, j \in 1..Len(Listed) :
                    i < j => Listed[i].score >= Listed[j].score
             /\ \A i \in 1..Len(printed) : printed[i] # NoActivityLine

\* three reports were printed: one of score 0 and two of positive score that
\* were handed over in ascending order
C27_Witness ==
    /\ Returned
    /\ Len(reports) = 3
    /\ \E i \in 1..3 : reports[i].score = 0
    /\ \E i, j \in 1..3 :
           i < j /\ 0 < reports[i].score /\ reports[i].score < reports[j].score
    /\ Len(Listed) = 2

\* reports were handed over, none of positive score
C27_WitnessNone ==
    /\ Returned
    /\ Len(reports) >= 2
    /\ PositiveReports = {}
    /\ printed = <<NoActivityLine>>

---------------------------------------------------------------------------
(* C28 *)

\* the place of input commit i in ascending order of date, commits of equal
\* date in their input order
StablePlace(i) ==
    1 + Cardinality({j \in 1..Len(commits) :
                        \/ commits[j].date < commits[i].date
                        \/ commits[j].date = commits[i].date /\ j < i})

\* the input list in that order
StableOrder ==
    [p \in 1..Len(commits) |->
        commits[CHOOSE i \in 1..Len(commits) : StablePlace(i) = p]]

\* the messages of the flags of type t, in the order of the report
MessagesOfType(t) ==
    LET fs == SelectSeq(report.flags, LAMBDA f : f.type = t)
    IN  [k \in 1..Len(fs) |-> fs[k].message]

\* the MASS_COMMIT messages that numbering the commits in StableOrder gives
RECURSIVE StableMassMessages(_)
StableMassMessages(p) ==
    IF p > Len(commits) THEN <<>>
    ELSE (IF CommitLines(StableOrder[p]) > 300
          THEN << "Commit " \o ToString(p) \o ": "
                  \o ToString(CommitLines(StableOrder[p]))
                  \o " lines in single commit" >>
          ELSE <<>>)
         \o StableMassMessages(p + 1)

\* the consecutive pairs of StableOrder whose later commit is too fast
StableFastPairs ==
    {p \in 1..(Len(commits) - 1) :
        LET seconds == StableOrder[p + 1].date - StableOrder[p].date
        IN  seconds > 0 /\ 60 * CommitLines(StableOrder[p + 1]) > 100 * seconds}

StableSpeedMessage(p) ==
    ToString(RoundDiv(60 * CommitLines(StableOrder[p + 1]),
                      StableOrder[p + 1].date - StableOrder[p].date))
      \o " lines/min between commits " \o ToString(p) \o " and " \o ToString(p + 1)

\* C28: analyze orders the commits ascending by author date with a stable sort
\* before any rule is evaluated: the order the rules see is the input order
\* with commits of equal date left in their input order, so the 'Commit N'
\* numbers of the MASS_COMMIT flags and the pair named by the
\* UNREALISTIC_SPEED flag are those of that order.
C28_StableAscending ==
    Returned /\ commits # <<>> =>
        /\ SortByDate(commits) = StableOrder
        /\ MessagesOfType("MASS_COMMIT") = StableMassMessages(1)
        /\ MessagesOfType("UNREALISTIC_SPEED") =
              IF StableFastPairs = {} THEN <<>>
              ELSE << StableSpeedMessage(
                         CHOOSE p \in StableFastPairs :
                             \A q \in StableFastPairs : p <= q) >>

\* two commits of equal date were handed over after a later one and with the
\* heavy one first; in date order the heavy one is commit 2 and follows the
\* earliest commit too fast
C28_Witness ==
    /\ Returned
    /\ Len(commits) = 3
    /\ commits[1].date = commits[2].date
    /\ commits[3].date < commits[1].date
    /\ CommitLines(commits[1]) > 300
    /\ CommitLines(commits[2]) = 0
    /\ MessagesOfType("MASS_COMMIT") =
          << "Commit 2: 400 lines in single commit" >>
    /\ MessagesOfType("UNREALISTIC_SPEED") =
          << "800 lines/min between commits 1 and 2" >>

---------------------------------------------------------------------------
(* C29 *)

\* seconds between commit p and commit p + 1 of StableOrder
StableInterval(p) == StableOrder[p + 1].date - StableOrder[p].date

\* the consecutive pairs of StableOrder with identical dates
ZeroPairs == {p \in 1..(Len(commits) - 1) : StableInterval(p) = 0}

\* C29: a pair of consecutive commits with identical dates never triggers
\* UNREALISTIC_SPEED, however many lines the later commit changes: a flag of
\* that type names a pair with time between its commits, and there is none
\* when every pair has identical dates.  The scan goes on after such a pair: a
\* later pair that is too fast is still flagged.
C29_ZeroIntervalSkipped ==
    Returned /\ commits # <<>> =>
        /\ \A k \in FlagsOfType("UNREALISTIC_SPEED") :
              \E p \in 1..(Len(commits) - 1) :
                  /\ p \notin ZeroPairs
                  /\ report.flags[k].message = StableSpeedMessage(p)
        /\ ZeroPairs = 1..(Len(commits) - 1) => ~HasFlag("UNREALISTIC_SPEED")
        /\ (\E p \in ZeroPairs : \E q \in StableFastPairs : p < q)
              => HasFlag("UNREALISTIC_SPEED")

\* the first two commits have identical dates and the second changes 300
\* lines; the third follows too fast and is the one flagged
C29_Witness ==
    /\ Returned
    /\ Len(commits) = 3
    /\ ZeroPairs = {1}
    /\ CommitLines(StableOrder[2]) = 300
    /\ 2 \in StableFastPairs
    /\ MessagesOfType("UNREALISTIC_SPEED") = << StableSpeedMessage(2) >>

\* two commits with identical dates, the later of 300 lines, and no flag
C29_WitnessNoFlag ==
    /\ Returned
    /\ Len(commits) = 2
    /\ ZeroPairs = {1}
    /\ CommitLines(StableOrder[2]) = 300
    /\ ~HasFlag("UNREALISTIC_SPEED")

---------------------------------------------------------------------------
(* C30 *)

\* the repository entries that the answers githubService gave to a run amount
\* to: one entry per repository with commits left after the ignore list, in
\* the order of the repositories
RECURSIVE EntriesFrom(_, _)
EntriesFrom(run, i) ==
    IF i > Len(run.answers) THEN <<>>
    ELSE (IF run.answers[i].filtered = 0 THEN <<>>
          ELSE << analyzeCommits(run.answers[i].detailed)
                    @@ [name |-> run.repos[i].name,
                        url |-> run.repos[i].html_url] >>)
         \o EntriesFrom(run, i + 1)

\* the run went through every repository and finished
Finished(run) == run.pc = "done" /\ Len(run.answers) = Len(run.repos)

\* s is the complete result of the finished run: every part is that run's
IsResultOf(s, run) ==
    /\ Finished(run)
    /\ DOMAIN s = {"organization", "timeWindow", "lastUpdate", "repositories"}
    /\ s.organization = OrganizationName
    /\ s.timeWindow.since = ToISOString(run.timeWindow.since)
    /\ s.timeWindow.until = ToISOString(run.timeWindow.until)
    /\ s.lastUpdate = ToISOString(run.finishedAt)
    /\ s.repositories = EntriesFrom(run, 1)

IsInitialStats(s) == DOMAIN s = DOMAIN InitialStats /\ s = InitialStats

OneRunOrInitial(s) ==
    IsInitialStats(s) \/ \E r \in 1..MaxRuns : IsResultOf(s, runs[r])

\* C30: under any interleaving of analysis runs, overlapping ones included,
\* and GET /api/stats requests, currentStats (and so every answer to a
\* request) is either the initial empty value or the complete result of one
\* finished run: organization, timeWindow, lastUpdate and repositories all
\* come from that run, never a partly built list or a mix of two runs.
C30_PublishedIsOneRun ==
    /\ OneRunOrInitial(currentStats)
    /\ response # NoResponse => OneRunOrInitial(response)

\* run 2 started a week after run 1 and before run 1 had finished, run 2
\* finished first and a request was answered with its result, then run 1
\* finished with two repository entries and replaced it
C30_Witness ==
    /\ Finished(runs[1]) /\ Finished(runs[2])
    /\ runs[2].finishedAt.t < runs[1].finishedAt.t
    /\ runs[1].timeWindow # runs[2].timeWindow
    /\ Len(runs[1].repoStats) = 2
    /\ IsResultOf(currentStats, runs[1])
    /\ response # NoResponse /\ IsResultOf(response, runs[2])
    /\ response # currentStats

\* a request is answered while run 1 is between two repositories and run 2 is
\* waiting for the list of repositories: the answer is the initial value
C30_WitnessMidRun ==
    /\ runs[1].pc = "fetching" /\ runs[1].next = 2
    /\ Len(runs[1].repoStats) = 1
    /\ runs[2].pc = "listing"
    /\ IsInitialStats(response)

============================================================================
